---- MODULE Spec2Model ----
\* Waitlist binomial heap (src/src/heap/BinomialHeap.cpp) and the per-flight
\* seat ledger (src/src/booking/Flight.cpp) as state machines.
\*
\* capArg keeps the argument the Flight constructor was called with.
\*
\* The booking and cancellation paths of the menu layer
\* (src/src/booking/BookingSystem.cpp) run on the flights of the sample data:
\* flights maps a flight id to its ledger, nextBookingPriority is the global
\* counter, passed lists the priorities handed to Flight::addPassenger so far
\* and waitOrder lists, per flight, the waiting entries in the order in which
\* they were waitlisted.
\*
\* pairs lists, in the order of their inserts, the (priority, id) pairs handed
\* to a heap that takes only pairs of pairwise distinct priorities and not yet
\* returned by it.  heap is
\* the vector of the binary-heap PriorityQueue of src/header.h, pushes and
\* pops count its completed push and pop calls.
\*
\* The heap's nodes live in an arena `node` indexed by node address; the
\* pointer fields parent/child/sibling hold addresses (NULL = 0), exactly as
\* the C++ structure does.  `new` takes the lowest free address.
EXTENDS Integers, Sequences, FiniteSets, TLC

VARIABLES node, roots, capacity, capArg, confirmedPassengers, nInserts, nExtracts, last,
          flights, nextBookingPriority, passed, waitOrder,
          pairs, heap, pushes, pops

vars == <<node, roots, capacity, capArg, confirmedPassengers, nInserts, nExtracts, last,
          flights, nextBookingPriority, passed, waitOrder,
          pairs, heap, pushes, pops>>

-----------------------------------------------------------------------------
\* Bounds of the model

MaxInserts == 5          \* insert calls made on one heap in one behaviour
MaxWaitlisted == 2       \* addPassenger calls of one flight that reach the waitlist
MaxPriority == 2         \* priorities are drawn from 1..MaxPriority
MaxPassengerId == 3      \* passenger ids of a flight are drawn from 1..MaxPassengerId
MaxCapacity == 2         \* largest capacity handed to the Flight constructor
MaxBookings == 1         \* bookTicket calls that reach a flight after the sample data
MaxTableNodes == 17      \* nodes of the heap whose degree table is watched
MaxPushes == 7           \* push calls made on one PriorityQueue in one behaviour
MaxItem == 3             \* items of the PriorityQueue are drawn from 1..MaxItem
MaxKey == 4              \* distinct priorities are drawn from 1..MaxKey

NULL == 0
NodeIds == 1..MaxInserts
Priorities == 1..MaxPriority
Payloads == 1..MaxInserts   \* payloads of direct heap inserts
PassengerIds == 1..MaxPassengerId
CapacityArgs == (-1)..MaxCapacity

MinTableSize == 5

-----------------------------------------------------------------------------
\* BinomialHeapNode

FreeNode ==
  [alloc |-> FALSE, priority |-> 0, passengerId |-> 0, degree |-> 0,
   parent |-> NULL, child |-> NULL, sibling |-> NULL]

BinomialHeapNode(p, data) ==
  [alloc |-> TRUE, priority |-> p, passengerId |-> data, degree |-> 0,
   parent |-> NULL, child |-> NULL, sibling |-> NULL]

\* address returned by `new`: the lowest free one
NewAddr(nd) ==
  CHOOSE a \in DOMAIN nd : ~nd[a].alloc /\ \A b \in DOMAIN nd : b < a => nd[b].alloc

Delete(nd, n) == [nd EXCEPT ![n] = FreeNode]

-----------------------------------------------------------------------------
\* BinomialHeap private helpers

linkNoDegree(nd, y, z) ==
  [nd EXCEPT ![y].parent = z, ![y].sibling = nd[z].child, ![z].child = y]

linkKeepsSibling(nd, y, z) ==
  [nd EXCEPT ![y].parent = z, ![z].child = y, ![z].degree = @ + 1]

link(nd, y, z) ==
  [nd EXCEPT ![y].parent = z, ![y].sibling = nd[z].child,
             ![z].child = y, ![z].degree = @ + 1]

\* the entries of a sequence of pointers that are not null
RECURSIVE NonNull(_)
NonNull(ptrs) ==
  IF ptrs = <<>> THEN <<>>
  ELSE IF Head(ptrs) # NULL THEN <<Head(ptrs)>> \o NonNull(Tail(ptrs))
       ELSE NonNull(Tail(ptrs))

RECURSIVE MergeLoop(_, _, _, _)
MergeLoop(nd, r1, r2, new_roots) ==
  IF r1 # <<>> /\ r2 # <<>>
  THEN IF nd[Head(r1)].degree <= nd[Head(r2)].degree
       THEN MergeLoop(nd, Tail(r1), r2, Append(new_roots, Head(r1)))
       ELSE MergeLoop(nd, r1, Tail(r2), Append(new_roots, Head(r2)))
  ELSE new_roots \o r1 \o r2

mergeRootListsPrepend(nd, rts, other_roots) ==
  [roots |-> other_roots \o rts, other_roots |-> <<>>]

\* roots is this heap's root list afterwards, other_roots that of other_heap
mergeRootLists(nd, rts, other_roots) ==
  [roots |-> MergeLoop(nd, rts, other_roots, <<>>), other_roots |-> <<>>]

\* the sibling-linked list that starts at c
RECURSIVE SiblingChain(_, _)
SiblingChain(nd, c) ==
  IF c = NULL THEN <<>> ELSE <<c>> \o SiblingChain(nd, nd[c].sibling)

RECURSIVE GetSizeLoop(_, _, _, _)
GetSizeLoop(nd, q, head, count) ==
  IF head < Len(q)
  THEN GetSizeLoop(nd, q \o SiblingChain(nd, nd[q[head + 1]].child), head + 1, count + 1)
  ELSE count

getSizeRootsOnly(nd, rts) == Len(NonNull(rts))

getSize(nd, rts) == GetSizeLoop(nd, NonNull(rts), 0, 0)

RECURSIVE FloorLog2(_)
FloorLog2(n) == IF n <= 1 THEN 0 ELSE 1 + FloorLog2(n \div 2)

MaxDegreePossibleNoBuffer(nd, rts) ==
  IF rts # <<>> THEN FloorLog2(IF getSize(nd, rts) > 0 THEN getSize(nd, rts) ELSE 1) ELSE 0

\* size of degree_table
MaxDegreePossible(nd, rts) ==
  LET n == getSize(nd, rts)
      m == IF rts # <<>> THEN FloorLog2(IF n > 0 THEN n ELSE 1) + 2 ELSE 0
  IN IF m < MinTableSize THEN MinTableSize ELSE m

\* one pass of the body of the inner while loop: order the pair, link it
LinkPairNoSwap(nd, current, other) ==
  [node |-> link(nd, other, current), current |-> current, other |-> other]

LinkPair(nd, current, other) ==
  LET swap == nd[other].priority < nd[current].priority
      cur == IF swap THEN other ELSE current
      oth == IF swap THEN current ELSE other
  IN [node |-> link(nd, oth, cur), current |-> cur, other |-> oth]

\* record of one call link(y, z): the arena before and after it
LinkCall(y, z, before, after) == [y |-> y, z |-> z, before |-> before, after |-> after]

\* inner while loop; degree_table[d] of the code is table[d + 1], and links
\* collects the calls of link in the order they are made
\* (s and r below range over the one result of a loop body, which binds it
\* to a value before the next iteration starts)
CarryStep(nd, table, current, d, links) ==
  LET r == LinkPair(nd, current, table[d + 1])
  IN [node |-> r.node, table |-> [table EXCEPT ![d + 1] = NULL], current |-> r.current,
      d |-> d + 1, links |-> Append(links, LinkCall(r.other, r.current, nd, r.node))]

RECURSIVE CarryLoop(_, _, _, _, _)
CarryLoop(nd, table, current, d, links) ==
  IF d < Len(table) /\ table[d + 1] # NULL
  THEN CHOOSE x \in {CarryLoop(s.node, s.table, s.current, s.d, s.links) :
                       s \in {CarryStep(nd, table, current, d, links)}} : TRUE
  ELSE [node |-> nd, table |-> table, current |-> current, d |-> d, links |-> links]

\* std::vector<BinomialHeapNode *>(n, nullptr)
RECURSIVE NullTable(_)
NullTable(n) == IF n <= 0 THEN <<>> ELSE Append(NullTable(n - 1), NULL)

Resize(table, n) ==
  IF n <= Len(table) THEN SubSeq(table, 1, n)
  ELSE table \o NullTable(n - Len(table))

\* record of one assignment degree_table[d] = current after the inner loop:
\* the index and the size of the table before the resize test
Placement(d, table) == [d |-> d, size |-> Len(table)]

\* outer while loop over the original root list; places collects the
\* placements in the order they are made
RECURSIVE ConsolidateLoop(_, _, _, _, _, _)
ConsolidateLoop(nd, table, rts, it, links, places) ==
  IF it <= Len(rts)
  THEN CHOOSE x \in
         {LET t == IF r.d >= Len(r.table) THEN Resize(r.table, r.d + 1) ELSE r.table
          IN ConsolidateLoop(r.node, [t EXCEPT ![r.d + 1] = r.current], rts, it + 1, r.links,
                             Append(places, Placement(r.d, r.table))) :
            r \in {CarryLoop(nd, table, rts[it], nd[rts[it]].degree, links)}} : TRUE
  ELSE [node |-> nd, table |-> table, links |-> links, places |-> places]

\* std::list::sort with the comparison a->degree < b->degree (stable)
RECURSIVE InsertSorted(_, _, _)
InsertSorted(nd, sorted, x) ==
  IF sorted = <<>> THEN <<x>>
  ELSE IF nd[x].degree < nd[sorted[Len(sorted)]].degree
       THEN Append(InsertSorted(nd, SubSeq(sorted, 1, Len(sorted) - 1), x), sorted[Len(sorted)])
       ELSE Append(sorted, x)

RECURSIVE SortLoop(_, _, _)
SortLoop(nd, rts, sorted) ==
  IF rts = <<>> THEN sorted
  ELSE SortLoop(nd, Tail(rts), InsertSorted(nd, sorted, Head(rts)))

SortByDegree(nd, rts) == SortLoop(nd, rts, <<>>)

\* rebuild of the root list from the degree table
RECURSIVE ResetParents(_, _)
ResetParents(nd, kept) ==
  IF kept = <<>> THEN nd
  ELSE ResetParents([nd EXCEPT ![Head(kept)].parent = NULL], Tail(kept))

RebuildRoots(nd, table) ==
  LET kept == NonNull(table)
      nd2 == ResetParents(nd, kept)
  IN [node |-> nd2, roots |-> SortByDegree(nd2, kept)]

ConsolidateBodySortOnly(nd, rts) ==
  [node |-> nd, roots |-> SortByDegree(nd, rts), links |-> <<>>, places |-> <<>>]

\* r is what the outer loop has left
Rebuilt(r) ==
  [node |-> RebuildRoots(r.node, r.table).node, roots |-> RebuildRoots(r.node, r.table).roots,
   links |-> r.links, places |-> r.places]

ConsolidateBody(nd, rts) ==
  Rebuilt(ConsolidateLoop(nd, NullTable(MaxDegreePossible(nd, rts)), rts, 1, <<>>, <<>>))

consolidateLateReturn(nd, rts) ==
  IF Len(rts) <= 2 THEN [node |-> nd, roots |-> rts, links |-> <<>>, places |-> <<>>]
  ELSE ConsolidateBody(nd, rts)

consolidate(nd, rts) ==
  IF Len(rts) <= 1 THEN [node |-> nd, roots |-> rts, links |-> <<>>, places |-> <<>>]
  ELSE ConsolidateBody(nd, rts)

\* scan of the root list; the result is a position, Len(rts) + 1 is end()
RECURSIVE FindMinScan(_, _, _, _)
FindMinScan(nd, rts, it, min_it) ==
  IF it > Len(rts) THEN min_it
  ELSE IF nd[rts[it]].priority < nd[rts[min_it]].priority
       THEN FindMinScan(nd, rts, it + 1, it)
       ELSE FindMinScan(nd, rts, it + 1, min_it)

findMinNodeIteratorNoScan(nd, rts) ==
  IF rts = <<>> THEN Len(rts) + 1 ELSE 1

findMinNodeIteratorLastMin(nd, rts) ==
  IF rts = <<>> THEN Len(rts) + 1
  ELSE CHOOSE i \in DOMAIN rts :
         /\ \A j \in DOMAIN rts : nd[rts[i]].priority <= nd[rts[j]].priority
         /\ \A j \in DOMAIN rts : j > i => nd[rts[i]].priority < nd[rts[j]].priority

findMinNodeIteratorLastRoot(nd, rts) ==
  Len(rts) + (IF rts = <<>> THEN 1 ELSE 0)

findMinNodeIterator(nd, rts) ==
  IF rts = <<>> THEN Len(rts) + 1 ELSE FindMinScan(nd, rts, 2, 1)

-----------------------------------------------------------------------------
\* BinomialHeap public interface

\* traversal of clear(): a stack of nodes still to visit
RECURSIVE ClearLoop(_, _, _)
ClearLoop(nd, q, nodes_to_delete) ==
  IF q = <<>> THEN nodes_to_delete
  ELSE LET current == q[Len(q)]
           q1 == SubSeq(q, 1, Len(q) - 1)
           q2 == IF nd[current].child # NULL THEN Append(q1, nd[current].child) ELSE q1
           q3 == IF nd[current].sibling # NULL THEN Append(q2, nd[current].sibling) ELSE q2
       IN ClearLoop(nd, q3, Append(nodes_to_delete, current))

RECURSIVE DeleteAll(_, _)
DeleteAll(nd, nodes_to_delete) ==
  IF nodes_to_delete = <<>> THEN nd
  ELSE DeleteAll(Delete(nd, Head(nodes_to_delete)), Tail(nodes_to_delete))

clearRootsOnly(nd, rts) ==
  LET nodes_to_delete == NonNull(rts)
  IN [node |-> DeleteAll(nd, nodes_to_delete), roots |-> <<>>,
      deleted |-> nodes_to_delete]

clear(nd, rts) ==
  LET nodes_to_delete == ClearLoop(nd, NonNull(rts), <<>>)
  IN [node |-> DeleteAll(nd, nodes_to_delete), roots |-> <<>>,
      deleted |-> nodes_to_delete]

isEmpty(rts) == rts = <<>>

\* record of one call mergeRootLists(other_heap): the arena and the two root
\* lists before it, the two root lists after it
MergeCall(nd, rts, other_roots, m) ==
  [node |-> nd, roots |-> rts, other_roots |-> other_roots,
   new_roots |-> m.roots, new_other_roots |-> m.other_roots]

\* ~BinomialHeap() of a temporary heap: clear() on what its root list holds
Destroy(nd, rts) == clear(nd, rts).node

insert(nd, rts, priority, passengerId) ==
  LET new_node == NewAddr(nd)
      nd1 == [nd EXCEPT ![new_node] = BinomialHeapNode(priority, passengerId)]
      m == mergeRootLists(nd1, rts, <<new_node>>)
      c == consolidate(nd1, m.roots)
  IN [node |-> Destroy(c.node, m.other_roots), roots |-> c.roots, links |-> c.links,
      places |-> c.places, merges |-> <<MergeCall(nd1, rts, <<new_node>>, m)>>]

findMinPassengerIdLastMin(nd, rts) ==
  IF rts = <<>> THEN [err |-> TRUE, ret |-> 0]
  ELSE LET last_min == CHOOSE i \in DOMAIN rts :
                         /\ \A j \in DOMAIN rts : nd[rts[i]].priority <= nd[rts[j]].priority
                         /\ \A j \in DOMAIN rts : j > i => nd[rts[i]].priority < nd[rts[j]].priority
       IN [err |-> FALSE, ret |-> nd[rts[last_min]].passengerId]

findMinPassengerId(nd, rts) ==
  LET min_it == findMinNodeIterator(nd, rts)
  IN IF min_it = Len(rts) + 1 THEN [err |-> TRUE, ret |-> 0]
     ELSE [err |-> FALSE, ret |-> nd[rts[min_it]].passengerId]

findMinPriorityDefault(nd, rts) ==
  LET min_it == findMinNodeIterator(nd, rts)
  IN IF min_it = Len(rts) + 1 THEN [err |-> FALSE, ret |-> 0]
     ELSE [err |-> FALSE, ret |-> nd[rts[min_it]].priority]

findMinPriority(nd, rts) ==
  LET min_it == findMinNodeIterator(nd, rts)
  IN IF min_it = Len(rts) + 1 THEN [err |-> TRUE, ret |-> 0]
     ELSE [err |-> FALSE, ret |-> nd[rts[min_it]].priority]

\* the loop of extractMin that moves the children of min_node to children_heap
RECURSIVE DetachChildren(_, _, _)
DetachChildren(nd, child, children_roots) ==
  IF child = NULL THEN [node |-> nd, roots |-> children_roots]
  ELSE DetachChildren([nd EXCEPT ![child].parent = NULL, ![child].sibling = NULL],
                      nd[child].sibling, <<child>> \o children_roots)

extractMinDropsChildren(nd, rts) ==
  LET min_it == findMinNodeIterator(nd, rts)
  IN IF min_it = Len(rts) + 1
     THEN [err |-> TRUE, ret |-> 0, node |-> nd, roots |-> rts,
           links |-> <<>>, places |-> <<>>, merges |-> <<>>]
     ELSE LET min_node == rts[min_it]
              rts1 == SubSeq(rts, 1, min_it - 1) \o SubSeq(rts, min_it + 1, Len(rts))
              c == consolidate(nd, rts1)
          IN [err |-> FALSE, ret |-> c.node[min_node].passengerId,
              node |-> Delete(c.node, min_node), roots |-> c.roots,
              links |-> c.links, places |-> c.places, merges |-> <<>>]

extractMinKeepsStoredOrder(nd, rts) ==
  LET min_it == findMinNodeIterator(nd, rts)
  IN IF min_it = Len(rts) + 1
     THEN [err |-> TRUE, ret |-> 0, node |-> nd, roots |-> rts,
           links |-> <<>>, places |-> <<>>, merges |-> <<>>]
     ELSE LET min_node == rts[min_it]
              rts1 == SubSeq(rts, 1, min_it - 1) \o SubSeq(rts, min_it + 1, Len(rts))
              ch == DetachChildren(nd, nd[min_node].child, <<>>)
              stored == SiblingChain(nd, nd[min_node].child)
              m == mergeRootLists(ch.node, rts1, stored)
              c == consolidate(ch.node, m.roots)
          IN [err |-> FALSE, ret |-> c.node[min_node].passengerId,
              node |-> Destroy(Delete(c.node, min_node), m.other_roots),
              roots |-> c.roots, links |-> c.links, places |-> c.places,
              merges |-> <<MergeCall(ch.node, rts1, stored, m)>>]

extractMinNoDetach(nd, rts) ==
  LET min_it == findMinNodeIterator(nd, rts)
  IN IF min_it = Len(rts) + 1
     THEN [err |-> TRUE, ret |-> 0, node |-> nd, roots |-> rts,
           links |-> <<>>, places |-> <<>>, merges |-> <<>>]
     ELSE LET min_node == rts[min_it]
              rts1 == SubSeq(rts, 1, min_it - 1) \o SubSeq(rts, min_it + 1, Len(rts))
              ch == DetachChildren(nd, nd[min_node].child, <<>>)
              m == mergeRootLists(nd, rts1, ch.roots)
              c == consolidate(nd, m.roots)
          IN [err |-> FALSE, ret |-> c.node[min_node].passengerId,
              node |-> Destroy(Delete(c.node, min_node), m.other_roots),
              roots |-> c.roots, links |-> c.links, places |-> c.places,
              merges |-> <<MergeCall(nd, rts1, ch.roots, m)>>]

extractMin(nd, rts) ==
  LET min_it == findMinNodeIterator(nd, rts)
  IN IF min_it = Len(rts) + 1
     THEN [err |-> TRUE, ret |-> 0, node |-> nd, roots |-> rts,
           links |-> <<>>, places |-> <<>>, merges |-> <<>>]
     ELSE LET min_node == rts[min_it]
              rts1 == SubSeq(rts, 1, min_it - 1) \o SubSeq(rts, min_it + 1, Len(rts))
              ch == DetachChildren(nd, nd[min_node].child, <<>>)
              m == mergeRootLists(ch.node, rts1, ch.roots)
              c == consolidate(ch.node, m.roots)
          IN [err |-> FALSE, ret |-> c.node[min_node].passengerId,
              node |-> Destroy(Delete(c.node, min_node), m.other_roots),
              roots |-> c.roots, links |-> c.links, places |-> c.places,
              merges |-> <<MergeCall(ch.node, rts1, ch.roots, m)>>]

\* one iteration of the loop of getWaitlistOrdered_destructive
DrainStepLateRead(nd, rts) ==
  LET e == extractMin(nd, rts)
      prio == findMinPriorityDefault(e.node, e.roots)
  IN [node |-> e.node, roots |-> e.roots, entry |-> <<prio.ret, e.ret>>]

DrainStep(nd, rts) ==
  LET prio == findMinPriority(nd, rts)
      e == extractMin(nd, rts)
  IN [node |-> e.node, roots |-> e.roots, entry |-> <<prio.ret, e.ret>>]

\* the while loop; s ranges over the one result of the iteration, which binds
\* it to a value before the next iteration starts
RECURSIVE DrainLoop(_, _, _)
DrainLoop(nd, rts, waitlist) ==
  IF ~isEmpty(rts)
  THEN CHOOSE r \in {DrainLoop(s.node, s.roots, Append(waitlist, s.entry)) :
                       s \in {DrainStep(nd, rts)}} : TRUE
  ELSE [node |-> nd, roots |-> rts, ret |-> waitlist]

getWaitlistOrdered_destructive(nd, rts) == DrainLoop(nd, rts, <<>>)

-----------------------------------------------------------------------------
\* Operations on one BinomialHeap

HeapInit ==
  /\ pairs = <<>>
  /\ heap = <<>>
  /\ pushes = 0
  /\ pops = 0
  /\ flights = <<>>
  /\ nextBookingPriority = 1
  /\ passed = <<>>
  /\ waitOrder = <<>>
  /\ node = [a \in NodeIds |-> FreeNode]
  /\ roots = <<>>
  /\ capacity = 0
  /\ capArg = 0
  /\ confirmedPassengers = <<>>
  /\ nInserts = 0
  /\ nExtracts = 0
  /\ last = [op |-> "BinomialHeap", arg |-> <<>>, err |-> FALSE, ret |-> 0]

\* The heap never reads the payload, so a direct insert stores a payload that
\* no other entry of the heap carries: the number of the insert call.
Insert(priority) ==
  /\ nInserts < MaxInserts
  /\ LET r == insert(node, roots, priority, nInserts + 1)
     IN /\ node' = r.node
        /\ roots' = r.roots
        /\ last' = [op |-> "insert", arg |-> <<priority, nInserts + 1>>, err |-> FALSE,
                    ret |-> 0, links |-> r.links, places |-> r.places, merges |-> r.merges]
  /\ nInserts' = nInserts + 1
  /\ UNCHANGED <<pairs, heap, pushes, pops, flights, nextBookingPriority, passed, waitOrder, capacity, capArg, confirmedPassengers, nExtracts>>

ExtractMin ==
  /\ LET r == extractMin(node, roots)
     IN /\ node' = r.node
        /\ roots' = r.roots
        /\ nExtracts' = IF r.err THEN nExtracts ELSE nExtracts + 1
        /\ last' = [op |-> "extractMin", arg |-> <<>>, err |-> r.err, ret |-> r.ret,
                    links |-> r.links, places |-> r.places, merges |-> r.merges]
  /\ UNCHANGED <<pairs, heap, pushes, pops, flights, nextBookingPriority, passed, waitOrder, capacity, capArg, confirmedPassengers, nInserts>>

FindMinPriority ==
  /\ LET r == findMinPriority(node, roots)
     IN last' = [op |-> "findMinPriority", arg |-> <<>>, err |-> r.err, ret |-> r.ret]
  /\ UNCHANGED <<pairs, heap, pushes, pops, flights, nextBookingPriority, passed, waitOrder, node, roots, capacity, capArg, confirmedPassengers, nInserts, nExtracts>>

FindMinPassengerId ==
  /\ LET r == findMinPassengerId(node, roots)
     IN last' = [op |-> "findMinPassengerId", arg |-> <<>>, err |-> r.err, ret |-> r.ret]
  /\ UNCHANGED <<pairs, heap, pushes, pops, flights, nextBookingPriority, passed, waitOrder, node, roots, capacity, capArg, confirmedPassengers, nInserts, nExtracts>>

GetSize ==
  /\ last' = [op |-> "getSize", arg |-> <<>>, err |-> FALSE, ret |-> getSize(node, roots)]
  /\ UNCHANGED <<pairs, heap, pushes, pops, flights, nextBookingPriority, passed, waitOrder, node, roots, capacity, capArg, confirmedPassengers, nInserts, nExtracts>>

IsEmpty ==
  /\ last' = [op |-> "isEmpty", arg |-> <<>>, err |-> FALSE, ret |-> isEmpty(roots)]
  /\ UNCHANGED <<pairs, heap, pushes, pops, flights, nextBookingPriority, passed, waitOrder, node, roots, capacity, capArg, confirmedPassengers, nInserts, nExtracts>>

\* clear() empties the heap and the call counters restart with it; ret lists
\* the addresses handed to delete, in the order of the delete loop
Clear ==
  /\ LET r == clear(node, roots)
     IN /\ node' = r.node
        /\ roots' = r.roots
        /\ last' = [op |-> "clear", arg |-> <<>>, err |-> FALSE, ret |-> r.deleted]
  /\ nInserts' = 0
  /\ nExtracts' = 0
  /\ UNCHANGED <<pairs, heap, pushes, pops, flights, nextBookingPriority, passed, waitOrder, capacity, capArg, confirmedPassengers>>

GetWaitlistOrderedDestructive ==
  /\ LET r == getWaitlistOrdered_destructive(node, roots)
     IN /\ node' = r.node
        /\ roots' = r.roots
        /\ nExtracts' = nExtracts + Len(r.ret)
        /\ last' = [op |-> "getWaitlistOrdered_destructive", arg |-> <<>>, err |-> FALSE, ret |-> r.ret]
  /\ UNCHANGED <<pairs, heap, pushes, pops, flights, nextBookingPriority, passed, waitOrder, capacity, capArg, confirmedPassengers, nInserts>>

HeapNext ==
  \/ \E priority \in Priorities : Insert(priority)
  \/ ExtractMin
  \/ FindMinPriority
  \/ FindMinPassengerId
  \/ GetSize
  \/ IsEmpty
  \/ Clear
  \/ GetWaitlistOrderedDestructive

HeapSpec == HeapInit /\ [][HeapNext]_vars

-----------------------------------------------------------------------------
\* Flight

\* std::find: position of the first occurrence, Len + 1 for end()
RECURSIVE Find(_, _, _)
Find(seq, x, it) ==
  IF it > Len(seq) THEN Len(seq) + 1
  ELSE IF seq[it] = x THEN it ELSE Find(seq, x, it + 1)

Erase(seq, it) == SubSeq(seq, 1, it - 1) \o SubSeq(seq, it + 1, Len(seq))

FlightNoClamp(cap) == cap

Flight(cap) == IF cap >= 0 THEN cap ELSE 0

HasRoomOffByOne(confirmed, cap) == Len(confirmed) <= cap

HasRoom(confirmed, cap) == Len(confirmed) < cap

addPassengerNoFind(nd, rts, confirmed, cap, passengerId, priority) ==
  IF HasRoom(confirmed, cap)
  THEN [ret |-> TRUE, inserted |-> FALSE, node |-> nd, roots |-> rts,
        confirmed |-> Append(confirmed, passengerId)]
  ELSE [ret |-> TRUE, inserted |-> FALSE, node |-> nd, roots |-> rts,
        confirmed |-> confirmed]

addPassengerSwappedArgs(nd, rts, confirmed, cap, passengerId, priority) ==
  IF Find(confirmed, passengerId, 1) # Len(confirmed) + 1
  THEN [ret |-> TRUE, inserted |-> FALSE, node |-> nd, roots |-> rts, confirmed |-> confirmed]
  ELSE IF HasRoom(confirmed, cap)
       THEN [ret |-> TRUE, inserted |-> FALSE, node |-> nd, roots |-> rts,
             confirmed |-> Append(confirmed, passengerId)]
       ELSE LET h == insert(nd, rts, passengerId, priority)
            IN [ret |-> FALSE, inserted |-> TRUE, node |-> h.node, roots |-> h.roots,
                confirmed |-> confirmed]

addPassengerChecksWaitlist(nd, rts, confirmed, cap, passengerId, priority) ==
  IF Find(confirmed, passengerId, 1) # Len(confirmed) + 1
  THEN [ret |-> TRUE, inserted |-> FALSE, node |-> nd, roots |-> rts, confirmed |-> confirmed]
  ELSE IF HasRoom(confirmed, cap)
       THEN [ret |-> TRUE, inserted |-> FALSE, node |-> nd, roots |-> rts,
             confirmed |-> Append(confirmed, passengerId)]
       ELSE IF \E a \in NodeIds : nd[a].alloc /\ nd[a].passengerId = passengerId
            THEN [ret |-> FALSE, inserted |-> FALSE, node |-> nd, roots |-> rts,
                  confirmed |-> confirmed]
            ELSE LET h == insert(nd, rts, priority, passengerId)
                 IN [ret |-> FALSE, inserted |-> TRUE, node |-> h.node, roots |-> h.roots,
                     confirmed |-> confirmed]

addPassenger(nd, rts, confirmed, cap, passengerId, priority) ==
  IF Find(confirmed, passengerId, 1) # Len(confirmed) + 1
  THEN [ret |-> TRUE, inserted |-> FALSE, node |-> nd, roots |-> rts, confirmed |-> confirmed]
  ELSE IF HasRoom(confirmed, cap)
       THEN [ret |-> TRUE, inserted |-> FALSE, node |-> nd, roots |-> rts,
             confirmed |-> Append(confirmed, passengerId)]
       ELSE LET h == insert(nd, rts, priority, passengerId)
            IN [ret |-> FALSE, inserted |-> TRUE, node |-> h.node, roots |-> h.roots,
                confirmed |-> confirmed]

cancelBookingPromoteFront(nd, rts, confirmed, passengerId) ==
  LET it == Find(confirmed, passengerId, 1)
  IN IF it # Len(confirmed) + 1
     THEN LET erased == Erase(confirmed, it)
          IN IF ~isEmpty(rts)
             THEN LET e == extractMin(nd, rts)
                  IN [ret |-> TRUE, extracted |-> TRUE, caught |-> FALSE,
                      node |-> e.node, roots |-> e.roots,
                      confirmed |-> <<e.ret>> \o erased]
             ELSE [ret |-> TRUE, extracted |-> FALSE, caught |-> FALSE,
                   node |-> nd, roots |-> rts, confirmed |-> erased]
     ELSE [ret |-> FALSE, extracted |-> FALSE, caught |-> FALSE,
           node |-> nd, roots |-> rts, confirmed |-> confirmed]

cancelBookingPromotesAnyway(nd, rts, confirmed, passengerId) ==
  LET it == Find(confirmed, passengerId, 1)
      erased == IF it # Len(confirmed) + 1 THEN Erase(confirmed, it) ELSE confirmed
  IN IF ~isEmpty(rts)
     THEN LET e == extractMin(nd, rts)
          IN [ret |-> it # Len(confirmed) + 1, extracted |-> TRUE, caught |-> FALSE,
              node |-> e.node, roots |-> e.roots, confirmed |-> Append(erased, e.ret)]
     ELSE [ret |-> it # Len(confirmed) + 1, extracted |-> FALSE, caught |-> FALSE,
           node |-> nd, roots |-> rts, confirmed |-> erased]

cancelBookingNoPromotion(nd, rts, confirmed, passengerId) ==
  LET it == Find(confirmed, passengerId, 1)
  IN IF it # Len(confirmed) + 1
     THEN [ret |-> TRUE, extracted |-> FALSE, caught |-> FALSE,
           node |-> nd, roots |-> rts, confirmed |-> Erase(confirmed, it)]
     ELSE [ret |-> FALSE, extracted |-> FALSE, caught |-> FALSE,
           node |-> nd, roots |-> rts, confirmed |-> confirmed]

cancelBookingDiscardsPromoted(nd, rts, confirmed, passengerId) ==
  LET it == Find(confirmed, passengerId, 1)
  IN IF it # Len(confirmed) + 1
     THEN LET erased == Erase(confirmed, it)
          IN IF ~isEmpty(rts)
             THEN LET e == extractMin(nd, rts)
                  IN [ret |-> TRUE, extracted |-> TRUE, caught |-> FALSE,
                      node |-> e.node, roots |-> e.roots, confirmed |-> erased]
             ELSE [ret |-> TRUE, extracted |-> FALSE, caught |-> FALSE,
                   node |-> nd, roots |-> rts, confirmed |-> erased]
     ELSE [ret |-> FALSE, extracted |-> FALSE, caught |-> FALSE,
           node |-> nd, roots |-> rts, confirmed |-> confirmed]

cancelBookingNoIsEmptyCheck(nd, rts, confirmed, passengerId) ==
  LET it == Find(confirmed, passengerId, 1)
  IN IF it # Len(confirmed) + 1
     THEN LET erased == Erase(confirmed, it)
              e == extractMin(nd, rts)
          IN IF e.err
             THEN [ret |-> TRUE, extracted |-> FALSE, caught |-> TRUE,
                   node |-> nd, roots |-> rts, confirmed |-> erased]
             ELSE [ret |-> TRUE, extracted |-> TRUE, caught |-> FALSE,
                   node |-> e.node, roots |-> e.roots,
                   confirmed |-> Append(erased, e.ret)]
     ELSE [ret |-> FALSE, extracted |-> FALSE, caught |-> FALSE,
           node |-> nd, roots |-> rts, confirmed |-> confirmed]

cancelBooking(nd, rts, confirmed, passengerId) ==
  LET it == Find(confirmed, passengerId, 1)
  IN IF it # Len(confirmed) + 1
     THEN LET erased == Erase(confirmed, it)
          IN IF ~isEmpty(rts)
             THEN LET e == extractMin(nd, rts)
                  IN IF e.err
                     THEN [ret |-> TRUE, extracted |-> FALSE, caught |-> TRUE,
                           node |-> nd, roots |-> rts, confirmed |-> erased]
                     ELSE [ret |-> TRUE, extracted |-> TRUE, caught |-> FALSE,
                           node |-> e.node, roots |-> e.roots,
                           confirmed |-> Append(erased, e.ret)]
             ELSE [ret |-> TRUE, extracted |-> FALSE, caught |-> FALSE,
                   node |-> nd, roots |-> rts, confirmed |-> erased]
     ELSE [ret |-> FALSE, extracted |-> FALSE, caught |-> FALSE,
           node |-> nd, roots |-> rts, confirmed |-> confirmed]

displayStatusDestructive(nd, rts, confirmed, cap) ==
  LET nextPrio == findMinPriority(nd, rts)
      e == extractMin(nd, rts)
  IN [node |-> e.node, roots |-> e.roots,
      caught |-> ~isEmpty(rts) /\ (e.err \/ nextPrio.err),
      out |-> [capacity |-> cap, booked |-> Len(confirmed),
               waitlist |-> getSize(nd, rts), confirmed |-> confirmed,
               next |-> IF isEmpty(rts) \/ e.err \/ nextPrio.err THEN <<>>
                        ELSE <<e.ret, nextPrio.ret>>]]

\* what displayStatus prints: capacity, booked count, waitlist count, the
\* confirmed ids and, for a non-empty waitlist, the next passenger in line
displayStatus(nd, rts, confirmed, cap) ==
  LET nextPassId == findMinPassengerId(nd, rts)
      nextPrio == findMinPriority(nd, rts)
  IN [node |-> nd, roots |-> rts,
      caught |-> ~isEmpty(rts) /\ (nextPassId.err \/ nextPrio.err),
      out |-> [capacity |-> cap, booked |-> Len(confirmed),
               waitlist |-> getSize(nd, rts), confirmed |-> confirmed,
               next |-> IF isEmpty(rts) \/ nextPassId.err \/ nextPrio.err THEN <<>>
                        ELSE <<nextPassId.ret, nextPrio.ret>>]]

FlightInit ==
  /\ pairs = <<>>
  /\ heap = <<>>
  /\ pushes = 0
  /\ pops = 0
  /\ flights = <<>>
  /\ nextBookingPriority = 1
  /\ passed = <<>>
  /\ waitOrder = <<>>
  /\ node = [a \in NodeIds |-> FreeNode]
  /\ roots = <<>>
  /\ \E cap \in CapacityArgs :
        /\ capArg = cap
        /\ capacity = Flight(cap)
        /\ last = [op |-> "Flight", arg |-> <<cap>>, err |-> FALSE, ret |-> 0]
  /\ confirmedPassengers = <<>>
  /\ nInserts = 0
  /\ nExtracts = 0

AddPassenger(passengerId, priority) ==
  LET r == addPassenger(node, roots, confirmedPassengers, capacity, passengerId, priority)
  IN /\ (Find(confirmedPassengers, passengerId, 1) = Len(confirmedPassengers) + 1
         /\ ~HasRoom(confirmedPassengers, capacity))
           => (nInserts < MaxWaitlisted /\ nInserts < MaxInserts)
     /\ node' = r.node
     /\ roots' = r.roots
     /\ confirmedPassengers' = r.confirmed
     /\ nInserts' = IF r.inserted THEN nInserts + 1 ELSE nInserts
     /\ last' = [op |-> "addPassenger", arg |-> <<passengerId, priority>>,
                 err |-> FALSE, ret |-> r.ret]
     /\ UNCHANGED <<pairs, heap, pushes, pops, flights, nextBookingPriority, passed, waitOrder, capacity, capArg, nExtracts>>

CancelBooking(passengerId) ==
  LET r == cancelBooking(node, roots, confirmedPassengers, passengerId)
  IN /\ node' = r.node
     /\ roots' = r.roots
     /\ confirmedPassengers' = r.confirmed
     /\ nExtracts' = IF r.extracted THEN nExtracts + 1 ELSE nExtracts
     /\ last' = [op |-> "cancelBooking", arg |-> <<passengerId>>,
                 err |-> r.caught, ret |-> r.ret]
     /\ UNCHANGED <<pairs, heap, pushes, pops, flights, nextBookingPriority, passed, waitOrder, capacity, capArg, nInserts>>

DisplayStatus ==
  LET r == displayStatus(node, roots, confirmedPassengers, capacity)
  IN /\ node' = r.node
     /\ roots' = r.roots
     /\ last' = [op |-> "displayStatus", arg |-> <<>>, err |-> r.caught, ret |-> r.out]
     /\ UNCHANGED <<pairs, heap, pushes, pops, flights, nextBookingPriority, passed, waitOrder, capacity, capArg, confirmedPassengers, nInserts, nExtracts>>

FlightNext ==
  \/ \E passengerId \in PassengerIds, priority \in Priorities :
        AddPassenger(passengerId, priority)
  \/ \E passengerId \in PassengerIds : CancelBooking(passengerId)
  \/ DisplayStatus

FlightSpec == FlightInit /\ [][FlightNext]_vars

-----------------------------------------------------------------------------
\* Views of the heap used to state the properties

Children(nd, n) == SiblingChain(nd, nd[n].child)

SeqToSet(seq) == {seq[i] : i \in DOMAIN seq}

\* the nodes of the tree rooted at n
RECURSIVE Subtree(_, _)
Subtree(nd, n) ==
  {n} \cup UNION {Subtree(nd, c) : c \in SeqToSet(Children(nd, n))}

\* the nodes of the heap
HeapNodes(nd, rts) == UNION {Subtree(nd, r) : r \in SeqToSet(rts)}

EntryOf(nd, n) == <<nd[n].priority, nd[n].passengerId>>

\* number of stored entries equal to (priority, passengerId) pair e
EntryCount(nd, rts, e) == Cardinality({n \in HeapNodes(nd, rts) : EntryOf(nd, n) = e})

EntryPairs == Priorities \X (Payloads \cup PassengerIds)

\* the multiset of stored entries
Entries(nd, rts) == [e \in EntryPairs |-> EntryCount(nd, rts, e)]

SeqCount(seq, e) == Cardinality({i \in DOMAIN seq : seq[i] = e})

RECURSIVE Pow2(_)
Pow2(d) == IF d = 0 THEN 1 ELSE 2 * Pow2(d - 1)

WaitlistedIds == {node[n].passengerId : n \in HeapNodes(node, roots)}

ConfirmedIds == SeqToSet(confirmedPassengers)

-----------------------------------------------------------------------------
\* BookingSystem: booking and cancellation on the flights of the sample data

FlightIds == {"AI101", "BA202", "LH303"}

\* flight ids typed at the prompt: the known ones and one that is unknown
FlightIdInputs == FlightIds \cup {"ZZ999"}

\* an arena of n free nodes
RECURSIVE FreeArena(_)
FreeArena(n) == IF n <= 0 THEN <<>> ELSE Append(FreeArena(n - 1), FreeNode)

\* a Flight object after construction
NewFlight(cap) ==
  [capacity |-> Flight(cap), confirmedPassengers |-> <<>>,
   node |-> FreeArena(MaxInserts), roots |-> <<>>]

\* the entries of the sequence q that are still stored in the heap
RECURSIVE StillWaiting(_, _, _)
StillWaiting(q, nd, rts) ==
  IF q = <<>> THEN <<>>
  ELSE IF \E n \in HeapNodes(nd, rts) : EntryOf(nd, n) = Head(q)
       THEN <<Head(q)>> \o StillWaiting(Tail(q), nd, rts)
       ELSE StillWaiting(Tail(q), nd, rts)

\* the system after flight.addPassenger(passengerId, currentPriority) has
\* returned r and the counter has been incremented
Booked(sys, flightId, passengerId, currentPriority, r) ==
  [flights |-> [sys.flights EXCEPT ![flightId] =
                  [@ EXCEPT !.node = r.node, !.roots = r.roots,
                            !.confirmedPassengers = r.confirmed]],
   nextBookingPriority |-> sys.nextBookingPriority + 1,
   passed |-> Append(sys.passed, currentPriority),
   waitOrder |-> [sys.waitOrder EXCEPT ![flightId] =
                    IF r.inserted THEN Append(@, <<currentPriority, passengerId>>) ELSE @],
   ret |-> r.ret]

BookConstantPriority(sys, flightId, passengerId) ==
  LET f == sys.flights[flightId]
  IN Booked(sys, flightId, passengerId, 1,
            addPassenger(f.node, f.roots, f.confirmedPassengers, f.capacity,
                         passengerId, 1))

\* flight.addPassenger(passengerId, nextBookingPriority++)
Book(sys, flightId, passengerId) ==
  LET f == sys.flights[flightId]
  IN Booked(sys, flightId, passengerId, sys.nextBookingPriority,
            addPassenger(f.node, f.roots, f.confirmedPassengers, f.capacity,
                         passengerId, sys.nextBookingPriority))

SampleCapacity(flightId) ==
  CASE flightId = "AI101" -> 2
    [] flightId = "BA202" -> 250
    [] flightId = "LH303" -> 3

\* the pre-booked passengers, in the order of the calls
SampleBookings ==
  <<<<"AI101", 1>>, <<"AI101", 2>>, <<"AI101", 3>>, <<"AI101", 4>>, <<"LH303", 5>>>>

\* the calls one after the other; s ranges over the one result of a call
RECURSIVE BookAll(_, _)
BookAll(sys, bookings) ==
  IF bookings = <<>> THEN sys
  ELSE CHOOSE r \in {BookAll(s, Tail(bookings)) :
                       s \in {Book(sys, Head(bookings)[1], Head(bookings)[2])}} : TRUE

loadSampleData(sys) ==
  BookAll([flights |-> [AI101 |-> NewFlight(SampleCapacity("AI101")),
                        BA202 |-> NewFlight(SampleCapacity("BA202")),
                        LH303 |-> NewFlight(SampleCapacity("LH303"))],
           nextBookingPriority |-> sys.nextBookingPriority,
           passed |-> sys.passed,
           waitOrder |-> [AI101 |-> <<>>, BA202 |-> <<>>, LH303 |-> <<>>],
           ret |-> FALSE],
          SampleBookings)

\* the constructor
BookingSystem ==
  loadSampleData([flights |-> <<>>, nextBookingPriority |-> 1, passed |-> <<>>,
                  waitOrder |-> <<>>])

System == [flights |-> flights, nextBookingPriority |-> nextBookingPriority,
           passed |-> passed, waitOrder |-> waitOrder]

bookTicketAlwaysConsumes(sys, passengerId, flightId) ==
  IF flightId \notin DOMAIN sys.flights
  THEN [flights |-> sys.flights, nextBookingPriority |-> sys.nextBookingPriority + 1,
        passed |-> sys.passed, waitOrder |-> sys.waitOrder, ret |-> FALSE]
  ELSE Book(sys, flightId, passengerId)

bookTicket(sys, passengerId, flightId) ==
  IF flightId \notin DOMAIN sys.flights
  THEN [flights |-> sys.flights, nextBookingPriority |-> sys.nextBookingPriority,
        passed |-> sys.passed, waitOrder |-> sys.waitOrder, ret |-> FALSE]
  ELSE Book(sys, flightId, passengerId)

\* the system after flight.cancelBooking(passengerId) has returned r
Cancelled(sys, flightId, r) ==
  [flights |-> [sys.flights EXCEPT ![flightId] =
                  [@ EXCEPT !.node = r.node, !.roots = r.roots,
                            !.confirmedPassengers = r.confirmed]],
   nextBookingPriority |-> sys.nextBookingPriority,
   passed |-> sys.passed,
   waitOrder |-> [sys.waitOrder EXCEPT ![flightId] = StillWaiting(@, r.node, r.roots)],
   ret |-> r.ret]

BookingSystem_cancelBooking(sys, passengerId, flightId) ==
  IF flightId \notin DOMAIN sys.flights
  THEN [flights |-> sys.flights, nextBookingPriority |-> sys.nextBookingPriority,
        passed |-> sys.passed, waitOrder |-> sys.waitOrder, ret |-> FALSE]
  ELSE LET f == sys.flights[flightId]
       IN Cancelled(sys, flightId,
                    cancelBooking(f.node, f.roots, f.confirmedPassengers, passengerId))

BookingInit ==
  /\ pairs = <<>>
  /\ heap = <<>>
  /\ pushes = 0
  /\ pops = 0
  /\ node = [a \in NodeIds |-> FreeNode]
  /\ roots = <<>>
  /\ capacity = 0
  /\ capArg = 0
  /\ confirmedPassengers = <<>>
  /\ nInserts = 0
  /\ nExtracts = 0
  /\ flights = BookingSystem.flights
  /\ nextBookingPriority = BookingSystem.nextBookingPriority
  /\ passed = BookingSystem.passed
  /\ waitOrder = BookingSystem.waitOrder
  /\ last = [op |-> "BookingSystem", arg |-> <<>>, err |-> FALSE, ret |-> 0]

BookTicket(passengerId, flightId) ==
  /\ flightId \in DOMAIN flights =>
       /\ nextBookingPriority <= Len(SampleBookings) + MaxBookings
       /\ \E a \in NodeIds : ~flights[flightId].node[a].alloc
  /\ \E r \in {bookTicket(System, passengerId, flightId)} :
        /\ flights' = r.flights
        /\ nextBookingPriority' = r.nextBookingPriority
        /\ passed' = r.passed
        /\ waitOrder' = r.waitOrder
        /\ last' = [op |-> "bookTicket", arg |-> <<passengerId, flightId>>,
                    err |-> FALSE, ret |-> r.ret]
  /\ UNCHANGED <<pairs, heap, pushes, pops, node, roots, capacity, capArg, confirmedPassengers, nInserts, nExtracts>>

CancelTicket(passengerId, flightId) ==
  /\ \E r \in {BookingSystem_cancelBooking(System, passengerId, flightId)} :
        /\ flights' = r.flights
        /\ nextBookingPriority' = r.nextBookingPriority
        /\ passed' = r.passed
        /\ waitOrder' = r.waitOrder
        /\ last' = [op |-> "cancelBooking", arg |-> <<passengerId, flightId>>,
                    err |-> FALSE, ret |-> r.ret]
  /\ UNCHANGED <<pairs, heap, pushes, pops, node, roots, capacity, capArg, confirmedPassengers, nInserts, nExtracts>>

BookingNext ==
  \/ \E passengerId \in PassengerIds, flightId \in FlightIdInputs :
        BookTicket(passengerId, flightId)
  \/ \E passengerId \in PassengerIds, flightId \in FlightIdInputs :
        CancelTicket(passengerId, flightId)

BookingSpec == BookingInit /\ [][BookingNext]_vars

-----------------------------------------------------------------------------
\* One BinomialHeap that is handed pairs of pairwise distinct priorities

PairIds == 1..2

\* the pairs of the sequence q other than e
RECURSIVE WithoutPair(_, _)
WithoutPair(q, e) ==
  IF q = <<>> THEN <<>>
  ELSE IF Head(q) = e THEN WithoutPair(Tail(q), e)
       ELSE <<Head(q)>> \o WithoutPair(Tail(q), e)

PairInit == HeapInit

InsertPair(priority, passengerId) ==
  /\ nInserts < MaxInserts
  /\ \A i \in DOMAIN pairs : pairs[i][1] # priority
  /\ \E r \in {insert(node, roots, priority, passengerId)} :
        /\ node' = r.node
        /\ roots' = r.roots
  /\ pairs' = Append(pairs, <<priority, passengerId>>)
  /\ nInserts' = nInserts + 1
  /\ last' = [op |-> "insert", arg |-> <<priority, passengerId>>, err |-> FALSE, ret |-> 0]
  /\ UNCHANGED <<heap, pushes, pops, flights, nextBookingPriority, passed, waitOrder,
                 capacity, capArg, confirmedPassengers, nExtracts>>

\* extractMin deletes the node its scan of the root list has found
ExtractPair ==
  /\ ~isEmpty(roots)
  /\ \E r \in {extractMin(node, roots)} :
        /\ node' = r.node
        /\ roots' = r.roots
        /\ last' = [op |-> "extractMin", arg |-> <<>>, err |-> r.err, ret |-> r.ret]
  /\ pairs' = WithoutPair(pairs, EntryOf(node, roots[findMinNodeIterator(node, roots)]))
  /\ nExtracts' = nExtracts + 1
  /\ UNCHANGED <<heap, pushes, pops, flights, nextBookingPriority, passed, waitOrder,
                 capacity, capArg, confirmedPassengers, nInserts>>

\* arg keeps the pairs the heap holds, in the order they were inserted
DrainPairs ==
  /\ \E r \in {getWaitlistOrdered_destructive(node, roots)} :
        /\ node' = r.node
        /\ roots' = r.roots
        /\ nExtracts' = nExtracts + Len(r.ret)
        /\ last' = [op |-> "getWaitlistOrdered_destructive", arg |-> pairs,
                    err |-> FALSE, ret |-> r.ret]
  /\ pairs' = <<>>
  /\ UNCHANGED <<heap, pushes, pops, flights, nextBookingPriority, passed, waitOrder,
                 capacity, capArg, confirmedPassengers, nInserts>>

PairNext ==
  \/ \E priority \in 1..MaxKey, passengerId \in PairIds : InsertPair(priority, passengerId)
  \/ ExtractPair
  \/ DrainPairs

PairSpec == PairInit /\ [][PairNext]_vars

-----------------------------------------------------------------------------
\* The BinomialHeap of the single-file program (src/main_1.cpp)

\* passes granted to the outer loop of consolidate and visits granted to the
\* loop of getSize before the model stops following the call (terminated is
\* then FALSE); on a heap of n nodes a getSize that returns n makes n visits
\* and follows chains of fewer than n siblings
MaxPasses == 4 * MaxInserts + 4
MaxVisits == 2 * MaxInserts

\* mergeRootLists: it1 and it2 are positions in the two root lists
RECURSIVE main1_MergeLoop(_, _, _, _, _)
main1_MergeLoop(nd, rts, it1, other_roots, it2) ==
  IF it1 <= Len(rts) /\ it2 <= Len(other_roots)
  THEN IF nd[rts[it1]].degree > nd[other_roots[it2]].degree
       THEN main1_MergeLoop(nd, SubSeq(rts, 1, it1 - 1) \o <<other_roots[it2]>>
                                  \o SubSeq(rts, it1, Len(rts)),
                            it1, other_roots, it2 + 1)
       ELSE main1_MergeLoop(nd, rts, it1 + 1, other_roots, it2)
  ELSE rts \o SubSeq(other_roots, it2, Len(other_roots))

main1_mergeRootLists(nd, rts, other_roots) ==
  [roots |-> main1_MergeLoop(nd, rts, 1, other_roots, 1), other_roots |-> <<>>]

\* position of the first entry of rts equal to x, 0 when there is none
RECURSIVE FirstPosition(_, _, _)
FirstPosition(rts, x, rm_it) ==
  IF rm_it > Len(rts) THEN 0
  ELSE IF rts[rm_it] = x THEN rm_it ELSE FirstPosition(rts, x, rm_it + 1)

\* one pass of the inner while loop of consolidate; it is a position in the
\* root list, Len(rts) + 1 is end()
main1_CarryStep(nd, rts, table, it, current, d, links) ==
  LET swap == nd[table[d + 1]].priority < nd[current].priority
      cur == IF swap THEN table[d + 1] ELSE current
      other == IF swap THEN current ELSE table[d + 1]
      rm_it == FirstPosition(rts, other, 1)
      found == rm_it # 0
      rts1 == IF found THEN SubSeq(rts, 1, rm_it - 1) \o SubSeq(rts, rm_it + 1, Len(rts))
              ELSE rts
      it1 == IF found THEN rm_it ELSE 1
      it2 == IF it1 <= Len(rts1) /\ rts1[it1] = other THEN 1
             ELSE IF it1 > Len(rts1) /\ rts1 # <<>> THEN 1
             ELSE it1
  IN [node |-> link(nd, other, cur), roots |-> rts1,
      table |-> [table EXCEPT ![d + 1] = NULL], it |-> it2, current |-> cur, d |-> d + 1,
      links |-> Append(links, [y |-> other, z |-> cur, found |-> found])]

RECURSIVE main1_CarryLoop(_, _, _, _, _, _, _)
main1_CarryLoop(nd, rts, table, it, current, d, links) ==
  IF d < Len(table) /\ table[d + 1] # NULL
  THEN CHOOSE x \in {main1_CarryLoop(s.node, s.roots, s.table, s.it, s.current, s.d, s.links) :
                       s \in {main1_CarryStep(nd, rts, table, it, current, d, links)}} : TRUE
  ELSE [node |-> nd, roots |-> rts, table |-> table, it |-> it, current |-> current,
        d |-> d, links |-> links]

\* the outer while loop: the iterator moves only where the inner loop moves it
RECURSIVE main1_ConsolidateLoop(_, _, _, _, _, _)
main1_ConsolidateLoop(nd, rts, table, it, links, passes) ==
  IF it > Len(rts)
  THEN [node |-> nd, table |-> table, links |-> links, terminated |-> TRUE]
  ELSE IF passes = 0
  THEN [node |-> nd, table |-> table, links |-> links, terminated |-> FALSE]
  ELSE CHOOSE x \in
         {LET t == IF r.d < Len(r.table) THEN r.table ELSE Resize(r.table, r.d + 1)
          IN main1_ConsolidateLoop(r.node, r.roots, [t EXCEPT ![r.d + 1] = r.current],
                                   r.it, r.links, passes - 1) :
            r \in {main1_CarryLoop(nd, rts, table, it, rts[it], nd[rts[it]].degree, links)}} : TRUE

main1_Rebuild(r) ==
  [node |-> RebuildRoots(r.node, r.table).node, roots |-> RebuildRoots(r.node, r.table).roots,
   links |-> r.links, terminated |-> r.terminated]

main1_consolidate(nd, rts) ==
  IF rts = <<>> \/ Len(rts) = 1
  THEN [node |-> nd, roots |-> rts, links |-> <<>>, terminated |-> TRUE]
  ELSE main1_Rebuild(main1_ConsolidateLoop(nd, rts, NullTable(Len(rts) + 1), 1, <<>>, MaxPasses))

main1_Inserted(c) ==
  [node |-> c.node, roots |-> c.roots, links |-> c.links, terminated |-> c.terminated]

main1_insert(nd, rts, priority, passengerId) ==
  main1_Inserted(
    main1_consolidate([nd EXCEPT ![NewAddr(nd)] = BinomialHeapNode(priority, passengerId)],
                      main1_mergeRootLists(
                        [nd EXCEPT ![NewAddr(nd)] = BinomialHeapNode(priority, passengerId)],
                        rts, <<NewAddr(nd)>>).roots))

\* the inner while loop of getSize: the nodes pushed for one visited node
RECURSIVE main1_Siblings(_, _, _)
main1_Siblings(nd, child, steps) ==
  IF child = NULL THEN [terminated |-> TRUE, pushed |-> <<>>]
  ELSE IF steps = 0 THEN [terminated |-> FALSE, pushed |-> <<>>]
  ELSE CHOOSE x \in
         {[terminated |-> r.terminated, pushed |-> <<child>> \o r.pushed] :
            r \in {main1_Siblings(nd, nd[child].sibling, steps - 1)}} : TRUE

RECURSIVE main1_GetSizeLoop(_, _, _, _)
main1_GetSizeLoop(nd, nodes_to_visit, head, count) ==
  IF head >= Len(nodes_to_visit) THEN [terminated |-> TRUE, ret |-> count]
  ELSE IF count >= MaxVisits THEN [terminated |-> FALSE, ret |-> count]
  ELSE CHOOSE x \in
         {IF r.terminated
          THEN main1_GetSizeLoop(nd, nodes_to_visit \o r.pushed, head + 1, count + 1)
          ELSE [terminated |-> FALSE, ret |-> count + 1] :
            r \in {main1_Siblings(nd, nd[nodes_to_visit[head + 1]].child, MaxInserts)}} : TRUE

main1_getSize(nd, rts) == main1_GetSizeLoop(nd, rts, 0, 0)

main1_Init == HeapInit

\* as for the heap of the split sources, the payload of a direct insert is
\* the number of the insert call
main1_Insert(priority) ==
  /\ nInserts < MaxInserts
  /\ \E r \in {main1_insert(node, roots, priority, nInserts + 1)} :
        /\ node' = r.node
        /\ roots' = r.roots
        /\ last' = [op |-> "insert", arg |-> <<priority, nInserts + 1>>, err |-> FALSE,
                    ret |-> 0, links |-> r.links, terminated |-> r.terminated]
  /\ nInserts' = nInserts + 1
  /\ UNCHANGED <<pairs, heap, pushes, pops, flights, nextBookingPriority, passed, waitOrder,
                 capacity, capArg, confirmedPassengers, nExtracts>>

main1_GetSize ==
  /\ \E r \in {main1_getSize(node, roots)} :
        last' = [op |-> "getSize", arg |-> <<>>, err |-> FALSE, ret |-> r.ret,
                 terminated |-> r.terminated]
  /\ UNCHANGED <<pairs, heap, pushes, pops, flights, nextBookingPriority, passed, waitOrder,
                 node, roots, capacity, capArg, confirmedPassengers, nInserts, nExtracts>>

main1_IsEmpty ==
  /\ last' = [op |-> "isEmpty", arg |-> <<>>, err |-> FALSE, ret |-> isEmpty(roots)]
  /\ UNCHANGED <<pairs, heap, pushes, pops, flights, nextBookingPriority, passed, waitOrder,
                 node, roots, capacity, capArg, confirmedPassengers, nInserts, nExtracts>>

main1_Next ==
  \/ \E priority \in Priorities : main1_Insert(priority)
  \/ main1_GetSize
  \/ main1_IsEmpty

main1_Spec == main1_Init /\ [][main1_Next]_vars

-----------------------------------------------------------------------------
\* One BinomialHeap large enough for the size of the degree table of
\* consolidate to depend on the number of nodes

\* extractMin calls of one behaviour
MaxTableExtracts == 3

TableInit ==
  /\ pairs = <<>>
  /\ heap = <<>>
  /\ pushes = 0
  /\ pops = 0
  /\ flights = <<>>
  /\ nextBookingPriority = 1
  /\ passed = <<>>
  /\ waitOrder = <<>>
  /\ node = FreeArena(MaxTableNodes)
  /\ roots = <<>>
  /\ capacity = 0
  /\ capArg = 0
  /\ confirmedPassengers = <<>>
  /\ nInserts = 0
  /\ nExtracts = 0
  /\ last = [op |-> "BinomialHeap", arg |-> <<>>, err |-> FALSE, ret |-> 0]

\* A heap of fewer than 2^(MinTableSize - 1) nodes is filled with one
\* priority; a node added to a larger heap may carry any priority, so that
\* extractMin can also take the root of the largest tree.
\* arg[3] is getSize() before the call
TableInsert(priority) ==
  /\ \E a \in DOMAIN node : ~node[a].alloc
  /\ priority = 1 \/ getSize(node, roots) >= Pow2(MinTableSize - 1)
  /\ \E r \in {insert(node, roots, priority, nInserts + 1)} :
        /\ node' = r.node
        /\ roots' = r.roots
        /\ last' = [op |-> "insert", arg |-> <<priority, nInserts + 1, getSize(node, roots)>>,
                    err |-> FALSE, ret |-> 0, places |-> r.places]
  /\ nInserts' = nInserts + 1
  /\ UNCHANGED <<pairs, heap, pushes, pops, flights, nextBookingPriority, passed, waitOrder,
                 capacity, capArg, confirmedPassengers, nExtracts>>

\* arg[1] is getSize() before the call
TableExtractMin ==
  /\ nExtracts < MaxTableExtracts
  /\ ~isEmpty(roots)
  /\ \E r \in {extractMin(node, roots)} :
        /\ node' = r.node
        /\ roots' = r.roots
        /\ last' = [op |-> "extractMin", arg |-> <<getSize(node, roots)>>,
                    err |-> r.err, ret |-> r.ret, places |-> r.places]
  /\ nExtracts' = nExtracts + 1
  /\ UNCHANGED <<pairs, heap, pushes, pops, flights, nextBookingPriority, passed, waitOrder,
                 capacity, capArg, confirmedPassengers, nInserts>>

TableNext ==
  \/ \E priority \in Priorities : TableInsert(priority)
  \/ TableExtractMin

TableSpec == TableInit /\ [][TableNext]_vars

-----------------------------------------------------------------------------
\* PriorityQueue<T> of src/header.h with T = int; heap[i] of the code is
\* h[i + 1]

Items == 1..MaxItem

parent(i) == (i - 1) \div 2
leftChild(i) == 2 * i + 1
rightChild(i) == 2 * i + 2

\* std::swap(heap[i], heap[j])
Swap(h, i, j) == [h EXCEPT ![i + 1] = h[j + 1], ![j + 1] = h[i + 1]]

RECURSIVE heapifyUp(_, _)
heapifyUp(h, index) ==
  IF index # 0 /\ h[parent(index) + 1] < h[index + 1]
  THEN heapifyUp(Swap(h, index, parent(index)), parent(index))
  ELSE h

\* the value of largest after the two tests against the children
Largest(h, index) ==
  LET largest == IF leftChild(index) < Len(h) /\ h[index + 1] < h[leftChild(index) + 1]
                 THEN leftChild(index) ELSE index
  IN IF rightChild(index) < Len(h) /\ h[largest + 1] < h[rightChild(index) + 1]
     THEN rightChild(index) ELSE largest

RECURSIVE heapifyDown(_, _)
heapifyDown(h, index) ==
  IF Largest(h, index) # index
  THEN heapifyDown(Swap(h, index, Largest(h, index)), Largest(h, index))
  ELSE h

push(h, item) == heapifyUp(Append(h, item), Len(h))

\* heap[0] = heap.back(); heap.pop_back();
MoveBackToFront(h) == SubSeq([h EXCEPT ![1] = h[Len(h)]], 1, Len(h) - 1)

popNoHeapifyDown(h) ==
  [heap |-> MoveBackToFront(h), ret |-> h[1]]

\* called on a non-empty queue
pop(h) ==
  [heap |-> IF MoveBackToFront(h) # <<>> THEN heapifyDown(MoveBackToFront(h), 0)
            ELSE MoveBackToFront(h),
   ret |-> h[1]]

QueueInit ==
  /\ pairs = <<>>
  /\ heap = <<>>
  /\ pushes = 0
  /\ pops = 0
  /\ flights = <<>>
  /\ nextBookingPriority = 1
  /\ passed = <<>>
  /\ waitOrder = <<>>
  /\ node = [a \in NodeIds |-> FreeNode]
  /\ roots = <<>>
  /\ capacity = 0
  /\ capArg = 0
  /\ confirmedPassengers = <<>>
  /\ nInserts = 0
  /\ nExtracts = 0
  /\ last = [op |-> "PriorityQueue", arg |-> <<>>, err |-> FALSE, ret |-> 0]

Push(item) ==
  /\ pushes < MaxPushes
  /\ heap' = push(heap, item)
  /\ pushes' = pushes + 1
  /\ last' = [op |-> "push", arg |-> <<item>>, err |-> FALSE, ret |-> 0]
  /\ UNCHANGED <<pairs, pops, flights, nextBookingPriority, passed, waitOrder, node, roots,
                 capacity, capArg, confirmedPassengers, nInserts, nExtracts>>

Pop ==
  /\ heap # <<>>
  /\ \E r \in {pop(heap)} :
        /\ heap' = r.heap
        /\ last' = [op |-> "pop", arg |-> <<>>, err |-> FALSE, ret |-> r.ret]
  /\ pops' = pops + 1
  /\ UNCHANGED <<pairs, pushes, flights, nextBookingPriority, passed, waitOrder, node, roots,
                 capacity, capArg, confirmedPassengers, nInserts, nExtracts>>

QueueNext ==
  \/ \E item \in Items : Push(item)
  \/ Pop

QueueSpec == QueueInit /\ [][QueueNext]_vars

-----------------------------------------------------------------------------
\* Properties

\* C1: heap order. In every reachable heap every node's priority is <= the
\* priority of each of its descendants, equal priorities included.
C1_HeapOrder ==
  \A n \in HeapNodes(node, roots) :
    \A m \in Subtree(node, n) : node[n].priority <= node[m].priority

\* an extractMin has linked two trees of equal priority: a parent sits above
\* a child of the same priority, next to a second root
C1_Witness ==
  /\ last.op = "extractMin" /\ ~last.err
  /\ Len(roots) = 2
  /\ \E n \in HeapNodes(node, roots) : \E m \in Subtree(node, n) :
        m # n /\ node[n].priority = node[m].priority

\* C2: a successful extractMin returns the id of an entry whose priority is
\* <= the priority of every stored entry, and removes exactly that entry
\* from the multiset of entries.
C2_ExtractMinRemovesMinimum ==
  [][(last'.op = "extractMin" /\ ~isEmpty(roots)) =>
       /\ ~last'.err
       /\ \E p \in Priorities :
            /\ Entries(node, roots)[<<p, last'.ret>>] > 0
            /\ \A n \in HeapNodes(node, roots) : p <= node[n].priority
            /\ Entries(node', roots') =
                 [Entries(node, roots) EXCEPT ![<<p, last'.ret>>] = @ - 1]]_vars

\* an extractMin took the minimum out of a heap whose roots did not all hold
\* it, and left a heap that still has a non-root node
C2_Witness ==
  /\ last.op = "extractMin" /\ ~last.err
  /\ Len(roots) >= 1
  /\ \E n \in HeapNodes(node, roots) : node[n].parent # NULL
  /\ nInserts = MaxInserts

\* C3: after every completed operation the root degrees are pairwise
\* distinct and strictly ascending along the root list.
C3_RootDegreesAscending ==
  \A i, j \in DOMAIN roots : i < j => node[roots[i]].degree < node[roots[j]].degree

\* two roots of different degree remain after an extractMin
C3_Witness ==
  /\ last.op = "extractMin" /\ ~last.err
  /\ Len(roots) >= 2

\* C4: every node of degree d has exactly d children, of degrees d-1, ..., 0,
\* and roots a subtree of exactly 2^d nodes.
C4_BinomialTrees ==
  \A n \in HeapNodes(node, roots) :
    LET ch == Children(node, n)
        d == node[n].degree
    IN /\ Len(ch) = d
       /\ {node[ch[i]].degree : i \in DOMAIN ch} = 0..(d - 1)
       /\ Cardinality(Subtree(node, n)) = Pow2(d)

\* an insert left a tree of degree 2 next to a second root
C4_Witness ==
  /\ \E n \in HeapNodes(node, roots) : node[n].degree = 2
  /\ Len(roots) = 2
  /\ last.op = "insert"

\* C5: getSize() equals the number of inserts minus the number of successful
\* extractMins, and a getSize call leaves the heap as it was.
C5_SizeConservation ==
  [][/\ getSize(node', roots') = nInserts' - nExtracts'
     /\ last'.op = "getSize" =>
          /\ last'.ret = nInserts - nExtracts
          /\ node' = node /\ roots' = roots]_vars

\* getSize is called after inserts and extractions on a heap with non-root nodes
C5_Witness ==
  /\ last.op = "getSize"
  /\ last.ret = 3
  /\ nExtracts >= 1

\* C6: the drain returns a sequence non-decreasing in priority whose length
\* is the size before the call, and leaves the heap empty.
C6_DrainOrdering ==
  [][last'.op = "getWaitlistOrdered_destructive" =>
       /\ \A i, j \in DOMAIN last'.ret : i < j => last'.ret[i][1] <= last'.ret[j][1]
       /\ Len(last'.ret) = getSize(node, roots)
       /\ isEmpty(roots')
       /\ getSize(node', roots') = 0]_vars

\* a drain returned MaxInserts entries with a tie and a strict step
C6_Witness ==
  /\ last.op = "getWaitlistOrdered_destructive"
  /\ Len(last.ret) = MaxInserts
  /\ \E i \in DOMAIN last.ret : i > 1 /\ last.ret[i - 1][1] = last.ret[i][1]
  /\ \E i \in DOMAIN last.ret : i > 1 /\ last.ret[i - 1][1] < last.ret[i][1]

\* C7: the (priority, id) pairs reported by the drain are exactly the stored
\* entries, each once, in ascending order of their priorities: the priority
\* read by findMinPriority and the id returned by extractMin are one entry.
C7_MatchingPayloads ==
  [][last'.op = "getWaitlistOrdered_destructive" =>
       /\ \A e \in EntryPairs : SeqCount(last'.ret, e) = Entries(node, roots)[e]
       /\ \A i \in DOMAIN last'.ret : last'.ret[i] \in EntryPairs
       /\ \A i \in DOMAIN last'.ret : i > 1 => last'.ret[i - 1][1] <= last'.ret[i][1]]_vars

\* a drain reported entries that share the minimum priority and differ in id
C7_Witness ==
  /\ last.op = "getWaitlistOrdered_destructive"
  /\ Len(last.ret) >= 3
  /\ last.ret[1][1] = last.ret[2][1]
  /\ last.ret[1][2] # last.ret[2][2]
  /\ last.ret[2][1] < last.ret[3][1]

\* C8: on a heap without roots extractMin, findMinPriority and
\* findMinPassengerId fail, and the heap is still empty and unchanged.
C8_EmptyHeapError ==
  [][(isEmpty(roots) /\ last'.op \in {"extractMin", "findMinPriority", "findMinPassengerId"}) =>
       /\ last'.err
       /\ node' = node /\ roots' = roots
       /\ isEmpty(roots')
       /\ nExtracts' = nExtracts]_vars

\* extractMin failed on a heap that had been filled and fully extracted
C8_Witness ==
  /\ last.op = "extractMin" /\ last.err
  /\ nInserts >= 2 /\ nExtracts = nInserts

\* C9: the number of confirmed passengers never exceeds the capacity.
C9_SeatCapacity == Len(confirmedPassengers) <= capacity

\* a cancellation promoted a waitlisted passenger into the freed seat of a
\* full flight, and the waitlist is still non-empty
C9_Witness ==
  /\ last.op = "cancelBooking" /\ last.ret
  /\ capacity >= 1 /\ Len(confirmedPassengers) = capacity
  /\ nExtracts >= 1
  /\ ~isEmpty(roots)

\* C10: no passenger id is in the confirmed list and on the waitlist at once.
C10_ConfirmedXorWaitlisted == ConfirmedIds \cap WaitlistedIds = {}


\* C11: the confirmed list holds no passenger id more than once.
C11_ConfirmedUnique ==
  \A i, j \in DOMAIN confirmedPassengers :
    i < j => confirmedPassengers[i] # confirmedPassengers[j]

\* the sequence seq without the element at its first position holding x
WithoutFirst(seq, x) ==
  LET i == CHOOSE k \in DOMAIN seq : seq[k] = x /\ \A j \in DOMAIN seq : j < k => seq[j] # x
  IN SubSeq(seq, 1, i - 1) \o SubSeq(seq, i + 1, Len(seq))

C13_CancelledNotConfirmed ==
  (last.op = "cancelBooking" /\ last.ret) => last.arg[1] \notin ConfirmedIds

\* C14: cancelBooking(p) for an id that is not confirmed returns false and
\* leaves capacity, confirmed and the waitlist as they were, also when p is
\* on the waitlist.
C14_CancelNotFound ==
  [][(last'.op = "cancelBooking" /\ last'.arg[1] \notin ConfirmedIds) =>
       /\ last'.ret = FALSE
       /\ capacity' = capacity
       /\ confirmedPassengers' = confirmedPassengers
       /\ node' = node /\ roots' = roots]_vars

\* a cancellation was refused for a passenger who is on the waitlist
C14_Witness ==
  /\ last.op = "cancelBooking" /\ ~last.ret
  /\ last.arg[1] \in WaitlistedIds
  /\ confirmedPassengers # <<>>

\* C15: addPassenger(p, priority) with p already confirmed returns true and
\* leaves confirmed and the waitlist unchanged, on a full flight or not.
C15_IdempotentReconfirmation ==
  [][(last'.op = "addPassenger" /\ last'.arg[1] \in ConfirmedIds) =>
       /\ last'.ret = TRUE
       /\ confirmedPassengers' = confirmedPassengers
       /\ node' = node /\ roots' = roots]_vars

\* addPassenger returned true on a full flight for the passenger at the head
\* of confirmed; nobody was ever waitlisted, so the call did not add the id
C15_Witness ==
  /\ last.op = "addPassenger" /\ last.ret
  /\ capacity = 2 /\ Len(confirmedPassengers) = 2
  /\ last.arg[1] = confirmedPassengers[1]
  /\ nInserts = 0 /\ nExtracts = 0

\* C16: for an id that is not confirmed, addPassenger appends it to confirmed
\* and returns true when there is room, leaving the waitlist unchanged;
\* otherwise it adds exactly the entry (priority, id) to the waitlist,
\* returns false and leaves confirmed unchanged.
C16_AddPassengerFrame ==
  [][(last'.op = "addPassenger" /\ last'.arg[1] \notin ConfirmedIds) =>
       IF Len(confirmedPassengers) < capacity
       THEN /\ last'.ret = TRUE
            /\ confirmedPassengers' = Append(confirmedPassengers, last'.arg[1])
            /\ node' = node /\ roots' = roots
       ELSE /\ last'.ret = FALSE
            /\ confirmedPassengers' = confirmedPassengers
            /\ getSize(node', roots') = getSize(node, roots) + 1
            /\ Entries(node', roots') =
                 [Entries(node, roots) EXCEPT ![<<last'.arg[2], last'.arg[1]>>] = @ + 1]]_vars

\* a second passenger was waitlisted on a full flight that has a seat
C16_Witness ==
  /\ last.op = "addPassenger" /\ ~last.ret
  /\ capacity >= 1 /\ Len(confirmedPassengers) = capacity
  /\ getSize(node, roots) = 2
  /\ Entries(node, roots)[<<last.arg[2], last.arg[1]>>] = 1

\* C17: on a flight of capacity 0 the waitlist starts empty, every
\* addPassenger returns false and adds one waitlist entry, no other call
\* changes the waitlist size (so it equals the number of addPassenger calls),
\* every cancelBooking returns false, and confirmed stays empty.
C17_CapacityZero ==
  /\ capacity = 0 => confirmedPassengers = <<>> /\ getSize(node, roots) = 0
  /\ [][capacity = 0 =>
          /\ confirmedPassengers' = <<>>
          /\ IF last'.op = "addPassenger"
             THEN /\ last'.ret = FALSE
                  /\ getSize(node', roots') = getSize(node, roots) + 1
             ELSE getSize(node', roots') = getSize(node, roots)
          /\ last'.op = "cancelBooking" => last'.ret = FALSE]_vars

\* on a flight built with capacity 0 a cancellation was refused with two
\* passengers waitlisted
C17_Witness ==
  /\ capacity = 0 /\ capArg = 0
  /\ last.op = "cancelBooking" /\ ~last.ret
  /\ getSize(node, roots) = 2

\* C18: the stored capacity is never negative, and a flight built with a
\* negative capacity has capacity 0 and never confirms anybody.
C18_NegativeCapacityClamped ==
  /\ capacity >= 0
  /\ capArg < 0 =>
       /\ capacity = 0
       /\ confirmedPassengers = <<>>
       /\ last.op = "addPassenger" => last.ret = FALSE

\* a flight built with a negative capacity has waitlisted two passengers
C18_Witness ==
  /\ capArg < 0
  /\ last.op = "addPassenger" /\ ~last.ret
  /\ getSize(node, roots) = 2

\* C19: findMinPriority and findMinPassengerId leave the heap unchanged, the
\* id and the priority they return belong to one root, and an extractMin that
\* follows findMinPassengerId returns the same id.
C19_FindMinFrame ==
  [][/\ last'.op \in {"findMinPriority", "findMinPassengerId"} =>
          node' = node /\ roots' = roots
     /\ (last'.op = "findMinPassengerId" /\ ~last'.err) =>
          \E i \in DOMAIN roots :
             /\ node[roots[i]].passengerId = last'.ret
             /\ node[roots[i]].priority = findMinPriority(node, roots).ret
     /\ (last.op = "findMinPassengerId" /\ ~last.err /\ last'.op = "extractMin") =>
          /\ ~last'.err
          /\ last'.ret = last.ret]_vars

\* findMinPassengerId was called on a heap where two roots share the minimum
C19_Witness ==
  /\ last.op = "findMinPassengerId" /\ ~last.err
  /\ Len(roots) = 2
  /\ node[roots[1]].priority = node[roots[2]].priority

C21_ClearReleasesAll ==
  [][/\ last'.op = "clear" =>
          /\ isEmpty(roots') /\ getSize(node', roots') = 0
          /\ \A i, j \in DOMAIN last'.ret : i < j => last'.ret[i] # last'.ret[j]
          /\ SeqToSet(last'.ret) = HeapNodes(node, roots)
          /\ SeqToSet(last'.ret) = {a \in NodeIds : node[a].alloc}
          /\ node' = [a \in NodeIds |-> FreeNode]
     /\ (last.op = "clear" /\ last'.op = "insert") =>
          /\ Len(roots') = 1 /\ getSize(node', roots') = 1
          /\ EntryOf(node', roots'[1]) = last'.arg
          /\ node'[roots'[1]] = BinomialHeapNode(last'.arg[1], last'.arg[2])
          /\ Cardinality({a \in NodeIds : node'[a].alloc}) = 1]_vars

\* clear() has deleted the MaxInserts nodes of a heap with two trees
C21_Witness ==
  /\ last.op = "clear"
  /\ Len(last.ret) = MaxInserts
  /\ isEmpty(roots)

\* number of stored entries that carry passenger id p
IdCount(nd, rts, p) == Cardinality({n \in HeapNodes(nd, rts) : nd[n].passengerId = p})

\* number of stored entries that carry priority q
PriorityCount(nd, rts, q) == Cardinality({n \in HeapNodes(nd, rts) : nd[n].priority = q})

\* C22: the waitlist has no duplicate check. An addPassenger(p, prio) that
\* reaches the waitlist (p not confirmed, flight full) returns false and adds
\* one entry (prio, p) whatever is stored already: the waitlist count, the
\* number of entries for p and the number of entries of priority prio each
\* grow by one, also when p or prio is on the waitlist already.
C22_NoWaitlistDuplicateCheck ==
  [][(/\ last'.op = "addPassenger"
      /\ last'.arg[1] \notin ConfirmedIds
      /\ Len(confirmedPassengers) >= capacity) =>
       /\ last'.ret = FALSE
       /\ getSize(node', roots') = getSize(node, roots) + 1
       /\ IdCount(node', roots', last'.arg[1]) = IdCount(node, roots, last'.arg[1]) + 1
       /\ PriorityCount(node', roots', last'.arg[2]) =
            PriorityCount(node, roots, last'.arg[2]) + 1
       /\ EntryCount(node', roots', <<last'.arg[2], last'.arg[1]>>) =
            EntryCount(node, roots, <<last'.arg[2], last'.arg[1]>>) + 1]_vars

\* a passenger was waitlisted a second time with the priority of the first
\* time: the waitlist holds the same entry twice
C22_Witness ==
  /\ last.op = "addPassenger" /\ ~last.ret
  /\ EntryCount(node, roots, <<last.arg[2], last.arg[1]>>) = 2
  /\ getSize(node, roots) = 2

\* C24: a non-empty waitlist implies a full flight: no seat is free while
\* somebody is waitlisted.
C24_WaitlistImpliesFull ==
  ~isEmpty(roots) => Len(confirmedPassengers) = capacity

\* after a cancellation on a flight with one seat, the seat is taken again
\* and a passenger is still waiting
C24_Witness ==
  /\ last.op = "cancelBooking" /\ last.ret
  /\ capacity = 1 /\ Len(confirmedPassengers) = 1
  /\ nExtracts = 1
  /\ getSize(node, roots) = 1

\* the entries that a step takes off the waitlist
RemovedEntries ==
  {e \in EntryPairs : Entries(node', roots')[e] < Entries(node, roots)[e]}

\* C26: an entry leaves the waitlist only by promotion. A step that removes
\* an entry is a cancelBooking that returns true, removes that one entry only
\* and appends its id at the end of confirmed; addPassenger never removes an
\* entry and confirms only a passenger who has no waitlist entry; a
\* cancelBooking puts an id into confirmed only together with such a removal.
C26_LeavesOnlyByPromotion ==
  [][/\ getSize(node', roots') >= getSize(node, roots) - 1
     /\ \A e \in RemovedEntries :
          /\ last'.op = "cancelBooking" /\ last'.ret = TRUE
          /\ RemovedEntries = {e}
          /\ Entries(node', roots')[e] = Entries(node, roots)[e] - 1
          /\ getSize(node', roots') = getSize(node, roots) - 1
          /\ confirmedPassengers' =
               Append(WithoutFirst(confirmedPassengers, last'.arg[1]), e[2])
     /\ (last'.op = "addPassenger" /\ confirmedPassengers' # confirmedPassengers) =>
          /\ node' = node /\ roots' = roots
          /\ last'.arg[1] \notin WaitlistedIds
     /\ (last'.op = "cancelBooking" /\ RemovedEntries = {}) =>
          /\ node' = node /\ roots' = roots
          /\ \/ confirmedPassengers' = confirmedPassengers
             \/ confirmedPassengers' = WithoutFirst(confirmedPassengers, last'.arg[1])]_vars

\* a cancellation promoted one of two waiting passengers; the promoted one
\* is confirmed and off the waitlist, the other one still waits
C26_Witness ==
  /\ last.op = "cancelBooking" /\ last.ret
  /\ nInserts = 2 /\ nExtracts = 1
  /\ getSize(node, roots) = 1
  /\ confirmedPassengers # <<>>
  /\ confirmedPassengers[Len(confirmedPassengers)] \notin WaitlistedIds

\* bit d of the binary representation of n
Bit(n, d) == (n \div Pow2(d)) % 2

\* sum of 2^degree over the roots
RECURSIVE SumPow2Degrees(_, _)
SumPow2Degrees(nd, rts) ==
  IF rts = <<>> THEN 0
  ELSE Pow2(nd[Head(rts)].degree) + SumPow2Degrees(nd, Tail(rts))

\* ceil(log2(m)) for m >= 1
RECURSIVE CeilLog2From(_, _)
CeilLog2From(m, k) == IF Pow2(k) >= m THEN k ELSE CeilLog2From(m, k + 1)

CeilLog2(m) == CeilLog2From(m, 0)

\* C27: with n entries in the heap (inserts minus successful extractMins), a
\* root of degree d exists iff bit d of n is 1; hence n is the sum of
\* 2^degree over the roots and there are at most ceil(log2(n+1)) roots.
C27_RootsAreBinaryDigits ==
  LET n == nInserts - nExtracts
  IN /\ \A d \in 0..(FloorLog2(MaxInserts) + 1) :
          (\E i \in DOMAIN roots : node[roots[i]].degree = d) <=> (Bit(n, d) = 1)
     /\ \A i \in DOMAIN roots : node[roots[i]].degree \in 0..(FloorLog2(MaxInserts) + 1)
     /\ n = SumPow2Degrees(node, roots)
     /\ Len(roots) <= CeilLog2(n + 1)

\* an extractMin left three entries: binary 11, roots of degree 0 and 1
C27_Witness ==
  /\ last.op = "extractMin" /\ ~last.err
  /\ nInserts - nExtracts = 3
  /\ Len(roots) = 2
  /\ node[roots[1]].degree = 0 /\ node[roots[2]].degree = 1

\* position of the first root, in root-list order, that holds the least
\* priority found among the roots
FirstMinRoot(nd, rts) ==
  CHOOSE i \in DOMAIN rts :
    /\ \A j \in DOMAIN rts : nd[rts[i]].priority <= nd[rts[j]].priority
    /\ \A j \in DOMAIN rts : j < i => nd[rts[j]].priority > nd[rts[i]].priority

\* C28: tie-break. On a non-empty heap findMinPassengerId and extractMin
\* return the id of the first root in root-list order that holds the minimum
\* priority (extractMin deletes that node), findMinPriority returns its
\* priority, and this root has the lowest degree of the roots that hold the
\* minimum.
C28_TieBreakFirstRoot ==
  [][(/\ last'.op \in {"findMinPassengerId", "findMinPriority", "extractMin"}
      /\ ~isEmpty(roots)) =>
       LET first == roots[FirstMinRoot(node, roots)]
       IN /\ ~last'.err
          /\ last'.op = "findMinPriority" => last'.ret = node[first].priority
          /\ last'.op \in {"findMinPassengerId", "extractMin"} =>
               last'.ret = node[first].passengerId
          /\ last'.op = "extractMin" => ~node'[first].alloc
          /\ \A j \in DOMAIN roots :
               node[roots[j]].priority = node[first].priority =>
                 node[first].degree <= node[roots[j]].degree]_vars

\* findMinPassengerId answered with the root of degree 0 while a root of
\* degree 2 holds the same, minimum priority
C28_Witness ==
  /\ last.op = "findMinPassengerId" /\ ~last.err
  /\ Len(roots) = 2
  /\ node[roots[1]].degree = 0 /\ node[roots[2]].degree = 2
  /\ node[roots[1]].priority = node[roots[2]].priority
  /\ last.ret = node[roots[1]].passengerId

\* C29: every link made by the consolidate of an insert or extractMin joins
\* two distinct roots of the list being consolidated whose degrees are equal
\* when they are linked; the one of larger (or equal) priority value becomes
\* the first child of the other, in front of its earlier children; the
\* winner's degree grows by one and nothing else changes in any node, nor
\* between two links.
C29_LinkEqualDegreeRoots ==
  [][last'.op \in {"insert", "extractMin"} =>
       \A k \in DOMAIN last'.links :
         LET c == last'.links[k]
             y == c.y
             z == c.z
         IN /\ y # z
            /\ y \in SeqToSet(last'.merges[1].new_roots)
            /\ z \in SeqToSet(last'.merges[1].new_roots)
            /\ c.before[y].parent = NULL /\ c.before[z].parent = NULL
            /\ c.before[y].degree = c.before[z].degree
            /\ c.before[y].priority >= c.before[z].priority
            /\ c.after[z] = [c.before[z] EXCEPT !.child = y, !.degree = @ + 1]
            /\ c.after[y] = [c.before[y] EXCEPT !.parent = z, !.sibling = c.before[z].child]
            /\ \A n \in NodeIds \ {y, z} : c.after[n] = c.before[n]
            /\ c.before = IF k = 1 THEN last'.merges[1].node
                          ELSE last'.links[k - 1].after]_vars

\* an insert made two links, the second of two trees of degree 1, and one
\* of the links joined roots of equal priority
C29_Witness ==
  /\ last.op = "insert"
  /\ Len(last.links) = 2
  /\ last.links[2].before[last.links[2].y].degree = 1
  /\ \E k \in DOMAIN last.links :
       last.links[k].before[last.links[k].y].priority =
         last.links[k].before[last.links[k].z].priority

\* the root list rts is non-decreasing in degree
NonDecreasingDegrees(nd, rts) ==
  \A i, j \in DOMAIN rts : i < j => nd[rts[i]].degree <= nd[rts[j]].degree

\* C30: mergeRootLists, called with two root lists that are each
\* non-decreasing in degree, leaves this heap's root list non-decreasing in
\* degree and holding exactly the roots of both lists, each once, and leaves
\* the other heap's root list empty, so that the destructor of the other
\* heap frees none of the merged roots.
C30_MergeRootLists ==
  [][last'.op \in {"insert", "extractMin"} =>
       \A k \in DOMAIN last'.merges :
         LET c == last'.merges[k]
         IN (/\ NonDecreasingDegrees(c.node, c.roots)
             /\ NonDecreasingDegrees(c.node, c.other_roots)) =>
              /\ NonDecreasingDegrees(c.node, c.new_roots)
              /\ \A n \in NodeIds :
                   SeqCount(c.new_roots, n) = SeqCount(c.roots, n) + SeqCount(c.other_roots, n)
              /\ \A n \in SeqToSet(c.new_roots) : SeqCount(c.new_roots, n) = 1
              /\ c.new_other_roots = <<>>
              /\ \A n \in SeqToSet(c.new_roots) : node'[n].alloc]_vars

\* extractMin merged the two children of the extracted root, of degrees 0 and
\* 1, with the remaining root of degree 0
C30_Witness ==
  /\ last.op = "extractMin" /\ ~last.err
  /\ Len(last.merges) = 1
  /\ Len(last.merges[1].roots) = 1
  /\ Len(last.merges[1].other_roots) = 2
  /\ Len(last.merges[1].new_roots) = 3
  /\ last.merges[1].new_roots[3] = last.merges[1].other_roots[2]

StrictlyIncreasing(seq) == \A i, j \in DOMAIN seq : i < j => seq[i] < seq[j]

\* C23: every Flight::addPassenger call of BookingSystem gets the value of
\* the one counter nextBookingPriority, which is greater than every priority
\* passed before, on whatever flight; a booking attempt on an unknown flight
\* id calls no flight and leaves the counter as it is.
C23_GlobalPriorityCounter ==
  /\ StrictlyIncreasing(passed)
  /\ [][/\ last'.op = "bookTicket" =>
             IF last'.arg[2] \in DOMAIN flights
             THEN /\ passed' = Append(passed, nextBookingPriority)
                  /\ \A i \in DOMAIN passed : passed[i] < nextBookingPriority
                  /\ nextBookingPriority' = nextBookingPriority + 1
                  /\ \A f \in FlightIds \ {last'.arg[2]} : flights'[f] = flights[f]
                  /\ last'.ret = FALSE =>
                       \E n \in HeapNodes(flights'[last'.arg[2]].node,
                                          flights'[last'.arg[2]].roots) :
                          EntryOf(flights'[last'.arg[2]].node, n) =
                            <<nextBookingPriority, last'.arg[1]>>
             ELSE /\ passed' = passed
                  /\ nextBookingPriority' = nextBookingPriority
                  /\ flights' = flights
        /\ last'.op = "cancelBooking" =>
             /\ passed' = passed
             /\ nextBookingPriority' = nextBookingPriority]_vars

\* a booking on LH303 got priority 6, after the five bookings of the sample
\* data, four of them on AI101
C23_Witness ==
  /\ last.op = "bookTicket"
  /\ last.arg[2] = "LH303"
  /\ passed = <<1, 2, 3, 4, 5, 6>>
  /\ nextBookingPriority = 7

\* the entries stored in the waitlist of flight f
WaitlistEntries(f) == {EntryOf(f.node, n) : n \in HeapNodes(f.node, f.roots)}

\* C25: no overtaking. On every flight a successful cancellation promotes the
\* entry that has waited longest and every other entry moves up one place;
\* any other step leaves the waiting entries in their places and puts a new
\* one behind them. So an entry with k entries before it is promoted by the
\* (k+1)-th successful cancellation on its flight.
C25_NoOvertaking ==
  /\ \A f \in FlightIds : SeqToSet(waitOrder[f]) = WaitlistEntries(flights[f])
  /\ [][\A f \in FlightIds :
          /\ SeqToSet(waitOrder'[f]) = WaitlistEntries(flights'[f])
          /\ Len(waitOrder'[f]) = getSize(flights'[f].node, flights'[f].roots)
          /\ IF /\ last'.op = "cancelBooking" /\ last'.arg[2] = f /\ last'.ret = TRUE
                /\ waitOrder[f] # <<>>
             THEN /\ waitOrder'[f] = Tail(waitOrder[f])
                  /\ flights'[f].confirmedPassengers # <<>>
                  /\ flights'[f].confirmedPassengers[Len(flights'[f].confirmedPassengers)] =
                       Head(waitOrder[f])[2]
             ELSE /\ Len(waitOrder'[f]) >= Len(waitOrder[f])
                  /\ SubSeq(waitOrder'[f], 1, Len(waitOrder[f])) = waitOrder[f]]_vars

\* on AI101 the two passengers of the sample data's waitlist were promoted in
\* their order, and the entry booked after them is still waiting
C25_Witness ==
  /\ last.op = "cancelBooking" /\ last.ret
  /\ last.arg[2] = "AI101"
  /\ flights["AI101"].confirmedPassengers = <<3, 4>>
  /\ Len(waitOrder["AI101"]) = 1
  /\ waitOrder["AI101"][1][1] = 6

\* C31: in a successful extractMin the children of the removed root are
\* stored, along the sibling chain, in descending degree order d-1, ..., 0;
\* the forest handed to mergeRootLists holds exactly these children in the
\* reverse order, so in ascending degree order 0, ..., d-1, and each of them
\* has parent and sibling reset to null and is otherwise as it was.
C31_ChildrenReversed ==
  [][(last'.op = "extractMin" /\ ~last'.err) =>
       LET min_node == roots[FirstMinRoot(node, roots)]
           d == node[min_node].degree
           stored == Children(node, min_node)
           c == last'.merges[1]
       IN /\ Len(stored) = d
          /\ \A i \in 1..d : node[stored[i]].degree = d - i
          /\ Len(c.other_roots) = d
          /\ \A i \in 1..d :
               /\ c.other_roots[i] = stored[d + 1 - i]
               /\ c.node[c.other_roots[i]].degree = i - 1
               /\ c.node[c.other_roots[i]] =
                    [node[c.other_roots[i]] EXCEPT !.parent = NULL, !.sibling = NULL]
          /\ min_node \notin SeqToSet(c.roots)]_vars

\* extractMin removed the only root, of degree 2, and handed its children of
\* degrees 0 and 1 to mergeRootLists
C31_Witness ==
  /\ last.op = "extractMin" /\ ~last.err
  /\ Len(last.merges) = 1
  /\ last.merges[1].roots = <<>>
  /\ Len(last.merges[1].other_roots) = 2
  /\ last.merges[1].node[last.merges[1].other_roots[1]].degree = 0
  /\ last.merges[1].node[last.merges[1].other_roots[2]].degree = 1

\* number of ways to walk from an entry of the root list rts to node n in
\* at most k steps, a step following a child pointer or a sibling pointer:
\* the walks of no step, and those that come in over a pointer of a node m
RECURSIVE PathsInto(_, _, _, _, _)
RECURSIVE PathsUpTo(_, _, _, _)
PathsInto(nd, rts, n, k, m) ==
  IF m = 0 THEN 0
  ELSE PathsInto(nd, rts, n, k, m - 1)
       + (IF nd[m].alloc /\ nd[m].child = n THEN PathsUpTo(nd, rts, m, k - 1) ELSE 0)
       + (IF nd[m].alloc /\ nd[m].sibling = n THEN PathsUpTo(nd, rts, m, k - 1) ELSE 0)

PathsUpTo(nd, rts, n, k) ==
  IF k < 0 THEN 0 ELSE SeqCount(rts, n) + PathsInto(nd, rts, n, k, MaxInserts)

Allocated(nd) == {n \in NodeIds : nd[n].alloc}

\* the heap (nd, rts) owns its nodes as a forest
OwnedForest(nd, rts) ==
  /\ \A n \in Allocated(nd) : PathsUpTo(nd, rts, n, 2 * MaxInserts) = 1
  /\ \A i \in DOMAIN rts :
       /\ nd[rts[i]].alloc
       /\ nd[rts[i]].parent = NULL
       /\ nd[rts[i]].sibling = NULL
  /\ \A n \in Allocated(nd) :
       /\ Cardinality({p \in Allocated(nd) : n \in SeqToSet(Children(nd, p))}) <= 1
       /\ \A c \in SeqToSet(Children(nd, n)) : nd[c].alloc /\ nd[c].parent = n

\* C32: ownership. In every heap reached by insert, extractMin and clear the
\* child and sibling pointers form a forest without a cycle: every allocated
\* node is reached from the root list by exactly one walk, no node is in the
\* child list of two nodes, each child names its parent, and every root has
\* null parent and sibling pointers. A successful extractMin frees the
\* extracted node and no other, and afterwards neither the root list nor any
\* pointer of an allocated node names the freed node.
C32_Ownership ==
  /\ []OwnedForest(node, roots)
  /\ [][(last'.op = "extractMin" /\ ~last'.err) =>
          LET min_node == roots[FirstMinRoot(node, roots)]
          IN /\ Allocated(node') = Allocated(node) \ {min_node}
             /\ min_node \in Allocated(node)
             /\ min_node \notin SeqToSet(roots')
             /\ \A n \in Allocated(node') :
                  /\ node'[n].parent # min_node
                  /\ node'[n].child # min_node
                  /\ node'[n].sibling # min_node]_vars

\* extractMin freed a root that had two children, and the heap is left with
\* two roots, one of which has a child
C32_Witness ==
  /\ last.op = "extractMin" /\ ~last.err
  /\ Len(last.merges) = 1
  /\ Len(last.merges[1].other_roots) = 2
  /\ Len(roots) = 2
  /\ Cardinality(Allocated(node)) = 3
  /\ \E i \in DOMAIN roots : node[roots[i]].child # NULL

\* C33: the EmptyHeap error is never raised inside the ledger. isEmpty() is
\* false exactly when getSize() > 0; cancelBooking extracts from the waitlist
\* only when isEmpty() was false, and then the extraction succeeds;
\* displayStatus shows a next passenger exactly when isEmpty() is false; and
\* neither of them ever takes its catch branch.
C33_NoEmptyHeapErrorInLedger ==
  [][/\ ~isEmpty(roots') <=> getSize(node', roots') > 0
     /\ last'.op \in {"cancelBooking", "displayStatus"} => ~last'.err
     /\ last'.op = "cancelBooking" =>
          /\ nExtracts' # nExtracts => ~isEmpty(roots)
          /\ (last'.ret /\ ~isEmpty(roots)) => nExtracts' = nExtracts + 1
     /\ last'.op = "displayStatus" =>
          (last'.ret.next # <<>> <=> ~isEmpty(roots))]_vars

\* a cancellation found the waitlist non-empty and its extractMin returned
\* without error, leaving one passenger waiting
C33_Witness ==
  /\ last.op = "cancelBooking" /\ last.ret /\ ~last.err
  /\ nInserts = 2 /\ nExtracts = 1
  /\ ~isEmpty(roots) /\ getSize(node, roots) = 1
  /\ Len(confirmedPassengers) = capacity

\* the pairs of the set S in ascending order of priority
RECURSIVE AscendingByPriority(_)
AscendingByPriority(S) ==
  IF S = {} THEN <<>>
  ELSE LET m == CHOOSE e \in S : \A f \in S : e[1] <= f[1]
       IN <<m>> \o AscendingByPriority(S \ {m})

\* C34: when the pairs a heap holds have pairwise distinct priorities, the
\* sequence returned by the drain is fixed by the set of these pairs alone: it
\* is the same whatever the order of their inserts was and whatever pairs
\* were inserted and extracted in between.
C34_DrainOrderIndependent ==
  [][last'.op = "getWaitlistOrdered_destructive" =>
       /\ \A i, j \in DOMAIN pairs : i # j => pairs[i][1] # pairs[j][1]
       /\ last'.ret = AscendingByPriority(SeqToSet(pairs))]_vars

\* a drain returned three pairs that had been inserted in the order of
\* priorities 3, 1, 2 after another pair had been inserted and extracted
C34_Witness ==
  /\ last.op = "getWaitlistOrdered_destructive"
  /\ Len(last.arg) = 3
  /\ last.arg[1][1] = 3 /\ last.arg[2][1] = 1 /\ last.arg[3][1] = 2
  /\ Len(last.ret) = 3
  /\ nInserts = 4 /\ nExtracts = 4

\* C35: single-file program. In consolidate every node taken from the degree
\* table as `other` is found in the root list when it is to be removed, so
\* the fallback for a node that is not found is never taken, and link is
\* never called with one node as both arguments.
C35_OtherFoundNoSelfLink ==
  [][last'.op = "insert" =>
       \A k \in DOMAIN last'.links :
         /\ last'.links[k].found
         /\ last'.links[k].y # last'.links[k].z]_vars

\* C36: single-file program. After any sequence of inserts getSize returns,
\* and returns the number of nodes in the heap, which is the number of
\* inserts made.
C36_GetSizeCountsNodes ==
  [][last'.op = "getSize" =>
       /\ last'.terminated
       /\ last'.ret = nInserts]_vars

\* C37: the degree table of consolidate, allocated with max(5,
\* floor(log2(n)) + 2) slots for a heap of n nodes, is never indexed at or
\* beyond its size: every placement degree_table[d] = current has d below
\* the allocated size, so the resize branch is never taken.
C37_DegreeTableInBounds ==
  [][last'.op \in {"insert", "extractMin"} =>
       LET n == IF last'.op = "insert" THEN last'.arg[3] + 1 ELSE last'.arg[1] - 1
       IN \A k \in DOMAIN last'.places :
            /\ last'.places[k].d >= 0
            /\ last'.places[k].d < last'.places[k].size
            /\ last'.places[k].size >= 5
            /\ last'.places[k].size > 5 =>
                 /\ Pow2(last'.places[k].size - 2) <= n
                 /\ n < Pow2(last'.places[k].size - 1)]_vars

\* the root of the tree of degree 4 was extracted from a heap of 17 nodes:
\* the table had six slots and a tree of degree 4 was placed in slot 4
C37_Witness ==
  /\ last.op = "extractMin"
  /\ last.arg[1] = 17
  /\ \E k \in DOMAIN last.places : last.places[k].size = 6 /\ last.places[k].d = 4

\* no element of the vector h is less than one of its two children
MaxHeap(h) ==
  \A i \in 0..(Len(h) - 1) :
    /\ leftChild(i) < Len(h) => ~(h[i + 1] < h[leftChild(i) + 1])
    /\ rightChild(i) < Len(h) => ~(h[i + 1] < h[rightChild(i) + 1])

\* C38: PriorityQueue of header.h. After any sequence of push calls and of
\* pop calls on a non-empty queue the vector has the max-heap property, a
\* pop returns an element that no remaining element exceeds, and size() is
\* the number of pushes minus the number of pops.
C38_PriorityQueueMaxHeap ==
  [][/\ MaxHeap(heap')
     /\ Len(heap') = pushes' - pops'
     /\ last'.op = "pop" => \A i \in DOMAIN heap' : ~(last'.ret < heap'[i])]_vars

\* a pop took the largest element out of a queue of seven and left a heap of
\* three levels that holds three different items
C38_Witness ==
  /\ last.op = "pop"
  /\ pushes = 7 /\ pops = 1
  /\ Len(heap) = 6
  /\ Cardinality({heap[i] : i \in DOMAIN heap}) = 3
  /\ last.ret = 3

====
